---------------------------- MODULE Spec2Model ----------------------------
(***************************************************************************)
(* Model of the iCloud <-> Exchange calendar sync handler                  *)
(* (api/sync-icloud-to-exchange.ts, latest revision) together with the     *)
(* Graph and CalDAV helpers it calls (lib/graph.ts, lib/icloud.ts).        *)
(*                                                                         *)
(* The two remote calendars are the only durable state.  One invocation    *)
(* of the handler is a sequence of steps: read both sides, write-back      *)
(* (Outlook -> iCloud), source deletion, derived busy blocks, forward sync *)
(* (iCloud -> Outlook) and the orphan sweep.  Every remote write can fail. *)
(***************************************************************************)
EXTENDS Integers, Sequences, FiniteSets, TLC

(***************************************************************************)
(* Bounds of the model.                                                    *)
(***************************************************************************)
MaxRuns == 2

MaxFailures == 1

MaxNewUids == 2

(***************************************************************************)
(* Program constants.                                                      *)
(***************************************************************************)
ALTVINA_BLOCK_UID_PREFIX == "altvina-"

icloudCal1 == "Shared Calendar"

icloudCal2 == "Jay's Calendar"

PstOffsetHours == 8

Tags == {"CAL1", "CAL2", "CAL3"}

ShowAsValues == {"free", "tentative", "busy", "oof", "workingElsewhere", "unknown"}

(* iCalUId that Exchange assigns itself to the event it stores under id.   *)
ExchangeAssigned(id) == "exchange-" \o ToString(id)

(* The k-th uid that crypto.randomUUID() hands out.                        *)
NewUid(k) == "n" \o ToString(k) \o "@altvina-sync"

(* A fixed listing order of uids (the server's listing order).             *)
UidOrder ==
    <<"u1", "u2", ALTVINA_BLOCK_UID_PREFIX \o "e1", ALTVINA_BLOCK_UID_PREFIX \o "e2">>
    \o [k \in 1..MaxNewUids |-> NewUid(k)]

(***************************************************************************)
(* Small helpers.                                                          *)
(***************************************************************************)
Range(s) == {s[i] : i \in DOMAIN s}

startsWith(s, p) == Len(s) >= Len(p) /\ SubSeq(s, 1, Len(p)) = p

(* Variant: the text is cut one character too late.                        *)
sliceOneLate(s, n) == SubSeq(s, n + 2, Len(s))

slice(s, n) == SubSeq(s, n + 1, Len(s))

charAt(s, i) == SubSeq(s, i, i)

RECURSIVE trimStart(_)
trimStart(s) ==
    IF Len(s) > 0 /\ charAt(s, 1) = " " THEN trimStart(slice(s, 1)) ELSE s

RECURSIVE trimEnd(_)
trimEnd(s) ==
    IF Len(s) > 0 /\ charAt(s, Len(s)) = " "
    THEN trimEnd(SubSeq(s, 1, Len(s) - 1)) ELSE s

trim(s) == trimEnd(trimStart(s))

UpperLetters == "ABCDEFGHIJKLMNOPQRSTUVWXYZ"

LowerLetters == "abcdefghijklmnopqrstuvwxyz"

lowerChar(c) ==
    IF \E i \in 1..Len(UpperLetters) : charAt(UpperLetters, i) = c
    THEN charAt(LowerLetters, CHOOSE i \in 1..Len(UpperLetters) : charAt(UpperLetters, i) = c)
    ELSE c

RECURSIVE toLowerCase(_)
toLowerCase(s) ==
    IF Len(s) = 0 THEN s ELSE lowerChar(charAt(s, 1)) \o toLowerCase(slice(s, 1))

Digits == "0123456789"

isDigit(c) == \E i \in 1..Len(Digits) : charAt(Digits, i) = c

digitValue(c) == (CHOOSE i \in 1..Len(Digits) : charAt(Digits, i) = c) - 1

NaN == [nan |-> TRUE, value |-> 0]

RECURSIVE parseDigits(_, _)
parseDigits(s, acc) ==
    IF Len(s) > 0 /\ isDigit(charAt(s, 1))
    THEN parseDigits(slice(s, 1), (acc * 10 + digitValue(charAt(s, 1))) % 1000)
    ELSE acc

(* parseInt(v, 10): leading blanks are skipped, an optional sign is read,  *)
(* then the longest run of digits; what follows the digits is ignored.     *)
parseInt(v) ==
    LET t == trimStart(v)
        signed == Len(t) > 0 /\ charAt(t, 1) \in {"-", "+"}
        u == IF signed THEN slice(t, 1) ELSE t
    IN  IF Len(u) = 0 \/ ~isDigit(charAt(u, 1)) THEN NaN
        ELSE [nan |-> FALSE,
              value |-> IF signed /\ charAt(t, 1) = "-"
                        THEN 0 - parseDigits(u, 0) ELSE parseDigits(u, 0)]

isNaN(n) == n.nan

(***************************************************************************)
(* Time.  Instants are hours on an absolute (UTC) axis.  formatDateTime    *)
(* renders an instant as wall-clock time in the configured zone; Graph     *)
(* stores {dateTime, timeZone} and returns the instant again on a read.    *)
(***************************************************************************)
formatDateTime(date) == date - PstOffsetHours

GraphInstant(dateTime) == dateTime + PstOffsetHours

(* The instant of the invocation (new Date()).                             *)
now == 12

(* The sync window: from midnight lookbackDays before today to the end of  *)
(* the day lookaheadDays after today (the bound is the following midnight).*)
calculateSyncWindow(lookbackDays, lookaheadDays) ==
    LET midnight == now - (now % 24)
    IN  [start |-> midnight - 24 * lookbackDays,
         end |-> midnight + 24 * lookaheadDays + 24]

(* Variant: the servers return every event, whatever the range asked for.  *)
timeRangeUnbounded(ev, w) == TRUE

(* time-range of the CalDAV REPORT and the range of the Graph calendarView:*)
(* the events that overlap the window.                                     *)
timeRange(ev, w) == ev.start < w.end /\ ev.end > w.start

(* The filter of the public calendar file: both bounds inclusive.          *)
publicInWindow(ev, w) == ev.start < w.end /\ ev.end >= w.start

(***************************************************************************)
(* Metadata codec.  A body is a sequence of lines of text; the marker is   *)
(* the trailing line: a fixed token, then the sync tag, then the origin    *)
(* uid, separated by blanks.                                               *)
(***************************************************************************)
TextLine == "Lunch with Sam"

MarkerToken == "SyncSource:"

MarkerDelimiter == " "

MarkerLine(tag, uid) == MarkerToken \o MarkerDelimiter \o tag \o MarkerDelimiter \o uid

NoMeta == [syncSource |-> "", uid |-> ""]

encodeSyncMeta(description, tag, uid) == description \o <<MarkerLine(tag, uid)>>

(* Position of the first c in s from position i on; 0 when there is none.  *)
RECURSIVE indexOf(_, _, _)
indexOf(s, c, i) ==
    IF i > Len(s) THEN 0
    ELSE IF charAt(s, i) = c THEN i ELSE indexOf(s, c, i + 1)

(* Lenient reading of one line: blanks around the fields are skipped; a    *)
(* line without the token, without a tag or without a uid is no marker.    *)
parseMarkerLine(line) ==
    LET t == trim(line)
    IN  IF ~startsWith(t, MarkerToken) THEN NoMeta
        ELSE LET rest == trimStart(slice(t, Len(MarkerToken)))
                 k == indexOf(rest, MarkerDelimiter, 1)
             IN  IF k = 0 THEN NoMeta
                 ELSE LET tag == SubSeq(rest, 1, k - 1)
                          uid == trimStart(slice(rest, k))
                      IN  IF tag = "" \/ uid = "" THEN NoMeta
                          ELSE [syncSource |-> tag, uid |-> uid]

parseSyncMeta(body) ==
    IF body = <<>> THEN NoMeta ELSE parseMarkerLine(body[Len(body)])

(***************************************************************************)
(* State.                                                                  *)
(*   icloud     events on the two writable CalDAV calendars                *)
(*   publicCal  events of the public (read-only) calendar URL              *)
(*   mirror     events on the Exchange target calendar                     *)
(*   exchange   events on the Exchange source calendar (work appointments) *)
(*   env        configuration and what calendar discovery resolves         *)
(* The remaining variables are the locals of the running invocation;       *)
(* reads names the remote reads (authentication included) it attempted.    *)
(***************************************************************************)
VARIABLES
    icloud, publicCal, mirror, exchange, env,
    nextId, newUidIdx, runNo, failures, pc,
    iCloudEvents, existingEventsInWindow, cal2UidsFromIcloud, restoredCal1Uids,
    outlookToIcloud, exchangeToIcloud, syncResult, deletedCount,
    srcCalls, mirrorCalls, reads, startIcloud, startMirror, result, prev

worldVars == <<icloud, publicCal, mirror, exchange, env, nextId, newUidIdx>>

runVars ==
    <<iCloudEvents, existingEventsInWindow, cal2UidsFromIcloud, restoredCal1Uids,
      outlookToIcloud, exchangeToIcloud, syncResult, deletedCount,
      srcCalls, mirrorCalls, reads, startIcloud, startMirror, result, prev>>

vars == <<worldVars, runVars, runNo, failures, pc>>

(***************************************************************************)
(* CalDAV adapter (lib/icloud.ts).  A resource is addressed by its         *)
(* calendar and uid (the file name is derived from the uid).               *)
(***************************************************************************)
HasResource(ic, cal, uid) == \E e \in ic : e.cal = cal /\ e.uid = uid

IcsOf(cal, event, uid) ==
    [cal |-> cal, uid |-> uid, title |-> event.title,
     start |-> event.start, end |-> event.end]

(* Variant: an unconditional PUT, the resource is written in any case.     *)
createIcloudEventUnconditional(ic, cal, event, fresh, fails) ==
    LET uid == IF event.uid # "" THEN event.uid ELSE fresh
    IN  IF fails
        THEN [ok |-> FALSE, uid |-> uid, icloud |-> ic]
        ELSE [ok |-> TRUE, uid |-> uid, icloud |-> ic \cup {IcsOf(cal, event, uid)}]

(* PUT with If-None-Match: * -- refused when the resource already exists.  *)
createIcloudEvent(ic, cal, event, fresh, fails) ==
    LET uid == IF event.uid # "" THEN event.uid ELSE fresh
    IN  IF fails \/ HasResource(ic, cal, uid)
        THEN [ok |-> FALSE, uid |-> uid, icloud |-> ic]
        ELSE [ok |-> TRUE, uid |-> uid, icloud |-> ic \cup {IcsOf(cal, event, uid)}]

(* Unconditional PUT at the event URL: replaces (or recreates) the resource. *)
updateIcloudEvent(ic, eventUrl, event, fails) ==
    IF fails THEN [ok |-> FALSE, icloud |-> ic]
    ELSE [ok |-> TRUE,
          icloud |-> {e \in ic : ~(e.cal = eventUrl[1] /\ e.uid = eventUrl[2])}
                     \cup {IcsOf(eventUrl[1], event, event.uid)}]

(* DELETE at the event URL; a 404 counts as success.                       *)
deleteIcloudEventByUrl(ic, eventUrl, fails) ==
    IF fails THEN [ok |-> FALSE, icloud |-> ic]
    ELSE [ok |-> TRUE,
          icloud |-> {e \in ic : ~(e.cal = eventUrl[1] /\ e.uid = eventUrl[2])}]

(***************************************************************************)
(* Graph adapter (lib/graph.ts).                                           *)
(***************************************************************************)
HasEvent(mir, id) == \E m \in mir : m.id = id

createShowAs == "busy"

(* Variant: the availability is forced to busy on every update.            *)
updateShowAsForced(preserveShowAs) == "busy"

updateShowAs(preserveShowAs) == IF preserveShowAs = "free" THEN "free" ELSE "busy"

bodyContent(event, tag) == encodeSyncMeta(<<>>, tag, event.uid)

(* POST: Exchange assigns the id and, no iCalUId being sent, the iCalUId.  *)
createEvent(mir, id, event, tag, fails) ==
    LET graphEvent ==
            [subject |-> event.title,
             body |-> bodyContent(event, tag),
             start |-> formatDateTime(event.start),
             end |-> formatDateTime(event.end),
             showAs |-> createShowAs]
    IN  IF fails THEN [ok |-> FALSE, mirror |-> mir]
        ELSE [ok |-> TRUE,
              mirror |-> mir \cup
                  {[id |-> id, subject |-> graphEvent.subject, body |-> graphEvent.body,
                    start |-> GraphInstant(graphEvent.start),
                    end |-> GraphInstant(graphEvent.end),
                    showAs |-> graphEvent.showAs, iCalUId |-> ExchangeAssigned(id)]}]

(* PATCH: subject, body, start, end and showAs are overwritten.            *)
updateEvent(mir, eventId, event, preserveShowAs, tag, fails) ==
    LET graphEvent ==
            [subject |-> event.title,
             body |-> bodyContent(event, tag),
             start |-> formatDateTime(event.start),
             end |-> formatDateTime(event.end),
             showAs |-> updateShowAs(preserveShowAs)]
    IN  IF fails \/ ~HasEvent(mir, eventId) THEN [ok |-> FALSE, mirror |-> mir]
        ELSE [ok |-> TRUE,
              mirror |->
                  {IF m.id = eventId
                   THEN [m EXCEPT !.subject = graphEvent.subject,
                                  !.body = graphEvent.body,
                                  !.start = GraphInstant(graphEvent.start),
                                  !.end = GraphInstant(graphEvent.end),
                                  !.showAs = graphEvent.showAs]
                   ELSE m : m \in mir}]

graphEventToNormalizedEvent(outlookEvent, uid, calendarName) ==
    [uid |-> uid, title |-> outlookEvent.subject,
     start |-> outlookEvent.start, end |-> outlookEvent.end,
     calendarName |-> calendarName, eventUrl |-> <<>>]

(***************************************************************************)
(* Remote calls issued by the running invocation (what, where, outcome).   *)
(***************************************************************************)
SrcCall(flow, op, cal, uid, ok) ==
    [flow |-> flow, op |-> op, cal |-> cal, uid |-> uid, ok |-> ok]

(* The two calendars of the Graph mailbox the handler looks up by name: the *)
(* target (mirror) calendar and the Exchange source calendar.              *)
targetCalendar == "msTargetCalendarName"

sourceCalendar == "msSourceCalendarName"

(* Variant: the sweep addresses its DELETE to the source calendar.         *)
writeCalendarIdSweepOnSource(flow) ==
    IF flow = "sweep" THEN sourceCalendar ELSE targetCalendar

(* The calendar id in the URL of the Graph writes of a sub-flow.           *)
writeCalendarId(flow) == targetCalendar

MirrorCall(flow, op, id, showAs, ok) ==
    [flow |-> flow, op |-> op, calendarId |-> writeCalendarId(flow), id |-> id,
     showAs |-> showAs, ok |-> ok]

(* k-th remote call of item i fails iff <<i, k>> \in fail.                 *)
Hit(fail, i, k) == IF <<i, k>> \in fail THEN 1 ELSE 0

(***************************************************************************)
(* Step 5: Outlook -> iCloud write-back, one mirror event at a time.       *)
(***************************************************************************)
(* Last entry wins, as Map.set does.                                       *)
iCloudByCalAndUid(events, calName, uid) ==
    LET idx == {i \in DOMAIN events :
                   events[i].calendarName = calName /\ events[i].uid = uid}
    IN  IF idx = {} THEN <<>>
        ELSE <<events[CHOOSE i \in idx : \A j \in idx : j <= i]>>

calUrlOf(e, cal) == IF cal = icloudCal1 THEN e.cal1Url ELSE e.cal2Url

(* No SyncSource: created by hand on the mirror; create on CAL2, then tag. *)
(* Variant: a human-created mirror event is passed over without a count.  *)
WbHumanCreatedUncounted(st, outlookEvent, i, fail, e) == st

WbHumanCreated(st, outlookEvent, i, fail, e) ==
    LET st1 == [st EXCEPT !.o2i.candidates = @ + 1]
    IN  IF ~e.cal2Url
        THEN [st1 EXCEPT !.o2i.skippedNoCal2Url = @ + 1]
        ELSE
          LET normalized == graphEventToNormalizedEvent(outlookEvent, "", icloudCal2)
              cr == createIcloudEvent(st.icloud, icloudCal2, normalized,
                                      NewUid(st.newIdx + 1), <<i, 1>> \in fail)
          IN  IF ~cr.ok
              THEN [st1 EXCEPT !.o2i.errors = @ + 1,
                               !.nfail = @ + Hit(fail, i, 1),
                               !.srcCalls = @ \cup
                                   {SrcCall("writeback", "create", icloudCal2, cr.uid, FALSE)}]
              ELSE
                LET toUpdate == graphEventToNormalizedEvent(outlookEvent, cr.uid, icloudCal2)
                    preserve == IF outlookEvent.showAs = "free" THEN "free" ELSE ""
                    up == updateEvent(st.mirror, outlookEvent.id, toUpdate, preserve,
                                      "CAL2", <<i, 2>> \in fail)
                    st2 == [st1 EXCEPT
                              !.icloud = cr.icloud,
                              !.cal2Uids = @ \cup {cr.uid},
                              !.newIdx = @ + 1,
                              !.srcCalls = @ \cup
                                  {SrcCall("writeback", "create", icloudCal2, cr.uid, TRUE)},
                              !.mirrorCalls = @ \cup
                                  {MirrorCall("writeback", "update", outlookEvent.id,
                                              updateShowAs(preserve), up.ok)}]
                IN  IF up.ok
                    THEN [st2 EXCEPT !.mirror = up.mirror, !.o2i.created = @ + 1]
                    ELSE [st2 EXCEPT !.o2i.errors = @ + 1,
                                     !.nfail = @ + Hit(fail, i, 2)]

(* Variant: only the titles are compared.                                  *)
sameEventByTitle(a, b) == a.title = b.title

sameEvent(a, b) == a.title = b.title /\ a.start = b.start /\ a.end = b.end

(* SyncSource and uid present, the iCloud event was fetched with its URL.  *)
WbUpdate(st, outlookEvent, iCloudEv, metaUid, calName, i, fail) ==
    LET outlookNorm == graphEventToNormalizedEvent(outlookEvent, metaUid, calName)
    IN  IF sameEvent(outlookNorm, iCloudEv) THEN st
        ELSE
          LET up == updateIcloudEvent(st.icloud, iCloudEv.eventUrl, outlookNorm,
                                      <<i, 1>> \in fail)
              st1 == [st EXCEPT !.srcCalls = @ \cup
                          {SrcCall("writeback", "update", calName, metaUid, up.ok)}]
          IN  IF up.ok
              THEN [st1 EXCEPT !.icloud = up.icloud, !.o2i.updated = @ + 1]
              ELSE [st1 EXCEPT !.o2i.errors = @ + 1, !.nfail = @ + 1]

(* Variant: the restore is made but the uid is not recorded as restored.   *)
WbRestoreUnrecorded(st, outlookEvent, syncSource, metaUid, calName, i, fail) ==
    LET outlookNorm == graphEventToNormalizedEvent(outlookEvent, metaUid, calName)
        cr == createIcloudEvent(st.icloud, calName, outlookNorm, metaUid, <<i, 1>> \in fail)
        st1 == [st EXCEPT !.srcCalls = @ \cup
                    {SrcCall("writeback", "restore", calName, metaUid, cr.ok)}]
    IN  IF cr.ok
        THEN [st1 EXCEPT !.icloud = cr.icloud, !.o2i.created = @ + 1]
        ELSE [st1 EXCEPT !.o2i.errors = @ + 1, !.nfail = @ + Hit(fail, i, 1)]

(* Tagged, but not among the fetched iCloud events: restore it there.      *)
WbRestore(st, outlookEvent, syncSource, metaUid, calName, i, fail) ==
    LET outlookNorm == graphEventToNormalizedEvent(outlookEvent, metaUid, calName)
        cr == createIcloudEvent(st.icloud, calName, outlookNorm, metaUid, <<i, 1>> \in fail)
        st1 == [st EXCEPT !.srcCalls = @ \cup
                    {SrcCall("writeback", "restore", calName, metaUid, cr.ok)}]
    IN  IF cr.ok
        THEN [st1 EXCEPT
                !.icloud = cr.icloud,
                !.cal2Uids = IF syncSource = "CAL2" THEN @ \cup {metaUid} ELSE @,
                !.restored1 = IF syncSource = "CAL1" THEN @ \cup {metaUid} ELSE @,
                !.o2i.created = @ + 1]
        ELSE [st1 EXCEPT !.o2i.errors = @ + 1, !.nfail = @ + Hit(fail, i, 1)]

(* Variant: no tag is treated as read-only.                                *)
readOnlySourceNone(syncSource) == FALSE

(* The public calendar is read-only.                                       *)
readOnlySource(syncSource) == syncSource = "CAL3"

(* Variant: the restore does not look at the uid.                          *)
restoreAllowedAnyUid(calUrl, metaUid) == calUrl

(* Busy blocks (uid prefix altvina-) are never restored from the mirror.   *)
restoreAllowed(calUrl, metaUid) ==
    calUrl /\ ~startsWith(metaUid, ALTVINA_BLOCK_UID_PREFIX)

WbItem(st, outlookEvent, i, fail, events, e) ==
    LET meta == parseSyncMeta(outlookEvent.body)
        metaUid == meta.uid
        syncSource == meta.syncSource
    IN  IF syncSource = "" THEN WbHumanCreated(st, outlookEvent, i, fail, e)
        ELSE IF metaUid = "" THEN st
        ELSE IF readOnlySource(syncSource) THEN st
        ELSE
          LET calName == IF syncSource = "CAL1" THEN icloudCal1 ELSE icloudCal2
              calUrl == calUrlOf(e, calName)
              found == iCloudByCalAndUid(events, calName, metaUid)
          IN  IF found # <<>> /\ found[1].eventUrl # <<>>
              THEN WbUpdate(st, outlookEvent, found[1], metaUid, calName, i, fail)
              ELSE IF restoreAllowed(calUrl, metaUid)
              THEN WbRestore(st, outlookEvent, syncSource, metaUid, calName, i, fail)
              ELSE st

RECURSIVE WriteBackLoop(_, _, _, _, _, _)
WriteBackLoop(st, existing, i, fail, events, e) ==
    IF i > Len(existing) THEN st
    ELSE WriteBackLoop(WbItem(st, existing[i], i, fail, events, e),
                       existing, i + 1, fail, events, e)

(***************************************************************************)
(* Step 5, second half: delete from iCloud what Outlook no longer holds.   *)
(***************************************************************************)
outlookKeys(existing) ==
    {<<m.syncSource, m.uid>> :
        m \in {x \in {parseSyncMeta(o.body) : o \in Range(existing)} :
                  x.syncSource # "" /\ x.uid # ""}}

outlookUidsFromICal(existing) == {o.iCalUId : o \in Range(existing)} \ {""}

tagOfCalendar(calendarName) == IF calendarName = icloudCal1 THEN "CAL1" ELSE "CAL2"

(* Variant: the earlier revision, which looked at the body tag only.       *)
outlookHasEventByKeyOnly(ev, existing) ==
    <<tagOfCalendar(ev.calendarName), ev.uid>> \in outlookKeys(existing)

outlookHasEvent(ev, existing) ==
    \/ <<tagOfCalendar(ev.calendarName), ev.uid>> \in outlookKeys(existing)
    \/ ev.uid \in outlookUidsFromICal(existing)

deleteCandidate(ev, existing) ==
    /\ ev.calendarName \in {icloudCal1, icloudCal2}
    /\ ev.eventUrl # <<>>
    /\ ~startsWith(ev.uid, ALTVINA_BLOCK_UID_PREFIX)
    /\ ~outlookHasEvent(ev, existing)

DeleteItem(st, ev, i, fail, existing) ==
    IF ~deleteCandidate(ev, existing) THEN st
    ELSE
      LET del == deleteIcloudEventByUrl(st.icloud, ev.eventUrl, <<i, 1>> \in fail)
          st1 == [st EXCEPT !.srcCalls = @ \cup
                      {SrcCall("delete", "delete", ev.calendarName, ev.uid, del.ok)}]
      IN  IF del.ok
          THEN [st1 EXCEPT !.icloud = del.icloud, !.o2i.deleted = @ + 1]
          ELSE [st1 EXCEPT !.o2i.errors = @ + 1, !.nfail = @ + 1]

RECURSIVE DeleteLoop(_, _, _, _, _)
DeleteLoop(st, events, i, fail, existing) ==
    IF i > Len(events) THEN st
    ELSE DeleteLoop(DeleteItem(st, events[i], i, fail, existing),
                    events, i + 1, fail, existing)

(***************************************************************************)
(* Step 5b: Exchange -> iCloud busy blocks.  One try/catch wraps the whole *)
(* step: the first call that throws ends it.                               *)
(***************************************************************************)
ExchangeOrder == <<"e1", "e2">>

RECURSIVE listExchange(_, _, _)
listExchange(src, w, ord) ==
    IF ord = <<>> THEN <<>>
    ELSE (IF \E x \in src : x.id = Head(ord) /\ timeRange(x, w)
          THEN <<CHOOSE x \in src : x.id = Head(ord)>> ELSE <<>>)
         \o listExchange(src, w, Tail(ord))

isBusy(x) == x.showAs # "" /\ x.showAs # "free"

RECURSIVE busyEventsOf(_)
busyEventsOf(sourceEvents) ==
    IF sourceEvents = <<>> THEN <<>>
    ELSE (IF isBusy(Head(sourceEvents)) THEN <<Head(sourceEvents)>> ELSE <<>>)
         \o busyEventsOf(Tail(sourceEvents))

isAltvinaBlock(ev) ==
    /\ startsWith(ev.uid, ALTVINA_BLOCK_UID_PREFIX)
    /\ ev.calendarName = icloudCal2
    /\ ev.eventUrl # <<>>

RECURSIVE altvinaBlocksOf(_)
altvinaBlocksOf(events) ==
    IF events = <<>> THEN <<>>
    ELSE (IF isAltvinaBlock(Head(events)) THEN <<Head(events)>> ELSE <<>>)
         \o altvinaBlocksOf(Tail(events))

BlockTitle == "Altvina Engagement"

(* Variant: an existing block is always rewritten.                         *)
sameBlockNever(existing, x) == FALSE

sameBlock(existing, x) == existing.start = x.start /\ existing.end = x.end

BlockItem(st, x, i, fail, blocks) ==
    LET uid == ALTVINA_BLOCK_UID_PREFIX \o x.id
        normalized == [uid |-> uid, title |-> BlockTitle, start |-> x.start,
                       end |-> x.end, calendarName |-> icloudCal2, eventUrl |-> <<>>]
        existing == iCloudByCalAndUid(blocks, icloudCal2, uid)
    IN  IF existing # <<>>
        THEN IF sameBlock(existing[1], x) THEN st
             ELSE LET up == updateIcloudEvent(st.icloud, existing[1].eventUrl,
                                              normalized, <<i, 1>> \in fail)
                      st1 == [st EXCEPT !.srcCalls = @ \cup
                                  {SrcCall("blocks", "update", icloudCal2, uid, up.ok)}]
                  IN  IF up.ok
                      THEN [st1 EXCEPT !.icloud = up.icloud, !.x2i.updated = @ + 1]
                      ELSE [st1 EXCEPT !.thrown = TRUE, !.nfail = @ + 1]
        ELSE LET cr == createIcloudEvent(st.icloud, icloudCal2, normalized, uid,
                                         <<i, 1>> \in fail)
                 st1 == [st EXCEPT !.srcCalls = @ \cup
                             {SrcCall("blocks", "create", icloudCal2, uid, cr.ok)}]
             IN  IF cr.ok
                 THEN [st1 EXCEPT !.icloud = cr.icloud, !.x2i.created = @ + 1]
                 ELSE [st1 EXCEPT !.thrown = TRUE, !.nfail = @ + Hit(fail, i, 1)]

RECURSIVE BlockLoop(_, _, _, _, _)
BlockLoop(st, busyEvents, i, fail, blocks) ==
    IF st.thrown \/ i > Len(busyEvents) THEN st
    ELSE BlockLoop(BlockItem(st, busyEvents[i], i, fail, blocks),
                   busyEvents, i + 1, fail, blocks)

BlockDeleteItem(st, ev, i, fail, busyIds) ==
    LET exchangeId == slice(ev.uid, Len(ALTVINA_BLOCK_UID_PREFIX))
    IN  IF exchangeId \in busyIds THEN st
        ELSE LET del == deleteIcloudEventByUrl(st.icloud, ev.eventUrl, <<i, 1>> \in fail)
                 st1 == [st EXCEPT !.srcCalls = @ \cup
                             {SrcCall("blocks", "delete", icloudCal2, ev.uid, del.ok)}]
             IN  IF del.ok
                 THEN [st1 EXCEPT !.icloud = del.icloud, !.x2i.deleted = @ + 1]
                 ELSE [st1 EXCEPT !.thrown = TRUE, !.nfail = @ + 1]

RECURSIVE BlockDeleteLoop(_, _, _, _, _, _)
BlockDeleteLoop(st, blocks, j, base, fail, busyIds) ==
    IF st.thrown \/ j > Len(blocks) THEN st
    ELSE BlockDeleteLoop(BlockDeleteItem(st, blocks[j], base + j, fail, busyIds),
                         blocks, j + 1, base, fail, busyIds)

(* Variant: no try/catch around Step 5b, what it throws reaches the        *)
(* handler's catch.                                                        *)
thrownFromBlockFlowUncaught(thrown) == thrown

(* Step 5b's own catch logs the error and goes on: nothing is rethrown.    *)
thrownFromBlockFlow(thrown) == FALSE

ExchangeToIcloudStep(st, fail, src, w, events) ==
    IF <<0, 1>> \in fail
    THEN [st EXCEPT !.thrown = TRUE, !.nfail = @ + 1,
                    !.srcCalls = @ \cup {SrcCall("blocks", "list", "", "", FALSE)}]
    ELSE
      LET sourceEvents == listExchange(src, w, ExchangeOrder)
          busyEvents == busyEventsOf(sourceEvents)
          busyIds == {x.id : x \in Range(busyEvents)}
          blocks == altvinaBlocksOf(events)
          st1 == BlockLoop(st, busyEvents, 1, fail, blocks)
      IN  BlockDeleteLoop(st1, blocks, 1, Len(busyEvents), fail, busyIds)

(***************************************************************************)
(* Step 6: iCloud -> Outlook (syncEvents, lib/graph.ts).                   *)
(***************************************************************************)
RECURSIVE iCloudEventsForOutlook(_)
iCloudEventsForOutlook(events) ==
    IF events = <<>> THEN <<>>
    ELSE (IF ~startsWith(Head(events).uid, ALTVINA_BLOCK_UID_PREFIX)
          THEN <<Head(events)>> ELSE <<>>)
         \o iCloudEventsForOutlook(Tail(events))

(* The tag that syncOptions {cal1Name, cal2Name} gives a calendar name.    *)
syncSourceOf(calendarName) ==
    IF calendarName = icloudCal1 THEN "CAL1"
    ELSE IF calendarName = icloudCal2 THEN "CAL2" ELSE "CAL3"

(* existingEventsByUid: keyed by iCalUId, the last event listed wins.      *)
existingEventsByUid(existingEvents, uid) ==
    LET idx == {i \in DOMAIN existingEvents :
                   existingEvents[i].iCalUId # "" /\ existingEvents[i].iCalUId = uid}
    IN  IF idx = {} THEN <<>>
        ELSE <<existingEvents[CHOOSE i \in idx : \A j \in idx : j <= i]>>

(* Variant: every availability other than busy is kept as if it were free. *)
preserveShowAsOfNonBusy(existingEvent) ==
    IF existingEvent.showAs # "busy" THEN "free" ELSE ""

preserveShowAsOf(existingEvent) == IF existingEvent.showAs = "free" THEN "free" ELSE ""

SyncItem(st, event, i, fail, existingEvents) ==
    IF event.uid \in st.processedUids
    THEN [st EXCEPT !.skipped = @ + 1]
    ELSE
      LET st1 == [st EXCEPT !.processedUids = @ \cup {event.uid}]
          existingEvent == existingEventsByUid(existingEvents, event.uid)
          tag == syncSourceOf(event.calendarName)
      IN  IF existingEvent # <<>>
          THEN LET preserveShowAs == preserveShowAsOf(existingEvent[1])
                   up == updateEvent(st.mirror, existingEvent[1].id, event,
                                     preserveShowAs, tag, <<i, 1>> \in fail)
                   st2 == [st1 EXCEPT !.mirrorCalls = @ \cup
                               {MirrorCall("forward", "update", existingEvent[1].id,
                                           updateShowAs(preserveShowAs), up.ok)}]
               IN  IF up.ok
                   THEN [st2 EXCEPT !.mirror = up.mirror, !.updated = @ + 1]
                   ELSE [st2 EXCEPT !.nfail = @ + Hit(fail, i, 1)]
          ELSE LET cr == createEvent(st.mirror, st.nextId, event, tag, <<i, 1>> \in fail)
                   st2 == [st1 EXCEPT !.mirrorCalls = @ \cup
                               {MirrorCall("forward", "create",
                                           IF cr.ok THEN st.nextId ELSE 0,
                                           createShowAs, cr.ok)}]
               IN  IF cr.ok
                   THEN [st2 EXCEPT !.mirror = cr.mirror, !.created = @ + 1,
                                    !.createdEventIds = @ \cup {st.nextId},
                                    !.nextId = @ + 1]
                   ELSE [st2 EXCEPT !.nfail = @ + 1]

RECURSIVE syncEvents(_, _, _, _, _)
syncEvents(st, events, i, fail, existingEvents) ==
    IF i > Len(events) THEN st
    ELSE syncEvents(SyncItem(st, events[i], i, fail, existingEvents),
                    events, i + 1, fail, existingEvents)

(***************************************************************************)
(* Step 7: orphan sweep on the mirror.                                     *)
(***************************************************************************)
cal1UidsOf(events) ==
    {ev.uid : ev \in {x \in Range(events) : x.calendarName = icloudCal1}}

cal3UidsOf(events) ==
    {ev.uid : ev \in {x \in Range(events) :
                         x.calendarName # icloudCal1 /\ x.calendarName # icloudCal2}}

(* Variant: an event without a tag is taken for a CAL2 event.              *)
isOrphanDefaultingToCal2(o, createdEventIds, cal1Uids, restored1, cal2Uids, cal3Uids) ==
    LET m == parseSyncMeta(o.body)
    IN  IF o.id \in createdEventIds THEN FALSE
        ELSE IF m.syncSource = "CAL1"
             THEN IF cal1Uids = {} /\ restored1 = {} THEN FALSE
                  ELSE m.uid \notin cal1Uids /\ m.uid \notin restored1
        ELSE IF m.syncSource = "CAL3"
             THEN IF cal3Uids = {} THEN FALSE ELSE m.uid \notin cal3Uids
        ELSE IF cal2Uids = {} THEN FALSE ELSE m.uid \notin cal2Uids

(* Variant: the uids restored to CAL1 in this run are not looked at.       *)
isOrphanIgnoringRestored(o, createdEventIds, cal1Uids, restored1, cal2Uids, cal3Uids) ==
    LET m == parseSyncMeta(o.body)
    IN  IF o.id \in createdEventIds THEN FALSE
        ELSE IF m.syncSource = "" \/ m.uid = "" THEN FALSE
        ELSE IF m.syncSource = "CAL1"
             THEN IF cal1Uids = {} /\ restored1 = {} THEN FALSE
                  ELSE m.uid \notin cal1Uids
        ELSE IF m.syncSource = "CAL2"
             THEN IF cal2Uids = {} THEN FALSE ELSE m.uid \notin cal2Uids
        ELSE IF m.syncSource = "CAL3"
             THEN IF cal3Uids = {} THEN FALSE ELSE m.uid \notin cal3Uids
        ELSE FALSE

isOrphan(o, createdEventIds, cal1Uids, restored1, cal2Uids, cal3Uids) ==
    LET m == parseSyncMeta(o.body)
    IN  IF o.id \in createdEventIds THEN FALSE
        ELSE IF m.syncSource = "" \/ m.uid = "" THEN FALSE
        ELSE IF m.syncSource = "CAL1"
             THEN IF cal1Uids = {} /\ restored1 = {} THEN FALSE
                  ELSE m.uid \notin cal1Uids /\ m.uid \notin restored1
        ELSE IF m.syncSource = "CAL2"
             THEN IF cal2Uids = {} THEN FALSE ELSE m.uid \notin cal2Uids
        ELSE IF m.syncSource = "CAL3"
             THEN IF cal3Uids = {} THEN FALSE ELSE m.uid \notin cal3Uids
        ELSE FALSE

SweepItem(st, o, i, fail) ==
    LET ok == ~(<<i, 1>> \in fail) /\ HasEvent(st.mirror, o.id)
        st1 == [st EXCEPT !.mirrorCalls = @ \cup
                    {MirrorCall("sweep", "delete", o.id, "", ok)}]
    IN  IF ok
        THEN [st1 EXCEPT !.mirror = {m \in @ : m.id # o.id}, !.deletedCount = @ + 1]
        ELSE [st1 EXCEPT !.nfail = @ + Hit(fail, i, 1)]

RECURSIVE SweepLoop(_, _, _, _)
SweepLoop(st, orphanedEvents, i, fail) ==
    IF i > Len(orphanedEvents) THEN st
    ELSE SweepLoop(SweepItem(st, orphanedEvents[i], i, fail), orphanedEvents, i + 1, fail)

RECURSIVE orphanedEventsOf(_, _, _, _, _, _)
orphanedEventsOf(existing, createdEventIds, cal1Uids, restored1, cal2Uids, cal3Uids) ==
    IF existing = <<>> THEN <<>>
    ELSE (IF isOrphan(Head(existing), createdEventIds, cal1Uids, restored1,
                      cal2Uids, cal3Uids)
          THEN <<Head(existing)>> ELSE <<>>)
         \o orphanedEventsOf(Tail(existing), createdEventIds, cal1Uids, restored1,
                             cal2Uids, cal3Uids)

(***************************************************************************)
(* Steps 1-4: the reads.  fetchAllEvents swallows a failed calendar fetch  *)
(* (that calendar contributes no events); a calendar whose name is not     *)
(* discovered contributes none either.                                     *)
(***************************************************************************)
RECURSIVE fetchEvents(_, _, _, _)
fetchEvents(ic, cal, w, ord) ==
    IF ord = <<>> THEN <<>>
    ELSE (IF \E x \in ic : x.cal = cal /\ x.uid = Head(ord) /\ timeRange(x, w)
          THEN LET e == CHOOSE x \in ic : x.cal = cal /\ x.uid = Head(ord)
               IN  <<[uid |-> e.uid, title |-> e.title, start |-> e.start,
                      end |-> e.end, calendarName |-> cal,
                      eventUrl |-> <<cal, e.uid>>]>>
          ELSE <<>>)
         \o fetchEvents(ic, cal, w, Tail(ord))

fetchAllEvents(ic, e, w, fetchOk) ==
    (IF e.cal1Url /\ fetchOk[icloudCal1]
     THEN fetchEvents(ic, icloudCal1, w, UidOrder) ELSE <<>>)
    \o
    (IF e.cal2Url /\ fetchOk[icloudCal2]
     THEN fetchEvents(ic, icloudCal2, w, UidOrder) ELSE <<>>)

(* The VEVENTs of a set in the order of their start (the file's order).    *)
RECURSIVE byStart(_)
byStart(evs) ==
    IF evs = {} THEN <<>>
    ELSE LET first == CHOOSE x \in evs : \A y \in evs : x.start <= y.start
         IN  <<first>> \o byStart(evs \ {first})

(* Step 1b: public events not already fetched by CalDAV, relabelled CAL2.  *)
(* Every VEVENT of the file is kept: a uid can come more than once.        *)
RECURSIVE publicAsCal2(_, _, _, _)
publicAsCal2(pub, caldavUids, w, ord) ==
    IF ord = <<>> THEN <<>>
    ELSE (IF Head(ord) \notin caldavUids
          THEN LET evs == byStart({x \in pub : x.uid = Head(ord) /\ publicInWindow(x, w)})
               IN  [i \in DOMAIN evs |->
                       [uid |-> evs[i].uid, title |-> evs[i].title,
                        start |-> evs[i].start, end |-> evs[i].end,
                        calendarName |-> icloudCal2, eventUrl |-> <<>>]]
          ELSE <<>>)
         \o publicAsCal2(pub, caldavUids, w, Tail(ord))

RECURSIVE listEventsInWindow(_, _, _)
listEventsInWindow(mir, w, id) ==
    IF \A m \in mir : m.id < id THEN <<>>
    ELSE (IF \E m \in mir : m.id = id /\ timeRange(m, w)
          THEN <<CHOOSE m \in mir : m.id = id>> ELSE <<>>)
         \o listEventsInWindow(mir, w, id + 1)

cal2UidsOf(events) ==
    {ev.uid : ev \in {x \in Range(events) :
                         /\ x.calendarName = icloudCal2
                         /\ ~startsWith(x.uid, ALTVINA_BLOCK_UID_PREFIX)}}

(* No edit since the last run.                                             *)
NoEdit == [side |-> "none", cal |-> "", uid |-> "", id |-> 0]

ZeroOutlookToIcloud ==
    [created |-> 0, updated |-> 0, deleted |-> 0, skippedNoCal2Url |-> 0,
     candidates |-> 0, errors |-> 0]

ZeroExchangeToIcloud == [created |-> 0, updated |-> 0, deleted |-> 0]

ZeroSyncResult == [created |-> 0, updated |-> 0, skipped |-> 0, createdEventIds |-> {}]

NoResult == [success |-> FALSE, status |-> 0, paused |-> FALSE]

FailPoints(n) == (0..n) \X {1, 2}

RECURSIVE SubsetsUpTo(_, _)
SubsetsUpTo(S, k) ==
    IF k <= 0 THEN {{}}
    ELSE LET smaller == SubsetsUpTo(S, k - 1)
         IN  smaller \cup {t \cup {x} : t \in smaller, x \in S}

(* The remote calls of a step that fail, within the failure budget.        *)
FailChoices(n) == SubsetsUpTo(FailPoints(n), MaxFailures - failures)

Untagged(mir) == {m \in mir : parseSyncMeta(m.body).syncSource = ""}

(***************************************************************************)
(* Initial calendars.  A world is one content of the remote calendars plus *)
(* the configuration; the families below cover the situations the handler  *)
(* distinguishes.  Every (tag, uid) is carried by at most one mirror event.*)
(***************************************************************************)
Ev(cal, uid, title, start, end) ==
    [cal |-> cal, uid |-> uid, title |-> title, start |-> start, end |-> end]

BlockUidE1 == ALTVINA_BLOCK_UID_PREFIX \o "e1"

BlockUidE2 == ALTVINA_BLOCK_UID_PREFIX \o "e2"

Mir(id, subject, showAs, iCalUId, body) ==
    [id |-> id, subject |-> subject, start |-> 9, end |-> 10,
     showAs |-> showAs, iCalUId |-> iCalUId, body |-> body]

(* The configuration: what discovery resolves, the two optional values,    *)
(* and the process environment (unset: required variables without value).  *)
Env(cal1Url, cal2Url, icloudCal3, msSourceCalendarName) ==
    [cal1Url |-> cal1Url, cal2Url |-> cal2Url, icloudCal3 |-> icloudCal3,
     msSourceCalendarName |-> msSourceCalendarName,
     SYNC_PAUSED |-> "", unset |-> {},
     SYNC_LOOKBACK_DAYS |-> "7", SYNC_LOOKAHEAD_DAYS |-> "30"]

World(ic, pub, mir, exch, e) ==
    [icloud |-> ic, publicCal |-> pub, mirror |-> mir, exchange |-> exch, env |-> e]

Cal1Choices ==
    {{}, {Ev(icloudCal1, "u1", "A", 9, 10)}, {Ev(icloudCal1, "u1", "B", 9, 10)}}

Cal2Choices ==
    {{}, {Ev(icloudCal2, "u2", "A", 9, 10)}, {Ev(icloudCal2, "u2", "A", 10, 11)}}

(* A synced copy of u1 (iCalUId the source uid, or one Exchange assigned). *)
Mirror1Choices ==
    {{}, {Mir(1, "A", "busy", "u1", <<MarkerLine("CAL1", "u1")>>)},
     {Mir(1, "A", "free", "u1", <<MarkerLine("CAL1", "u1")>>)},
     {Mir(1, "A", "busy", ExchangeAssigned(1), <<MarkerLine("CAL1", "u1")>>)}}

(* Made by hand (no marker, a malformed marker), or tagged CAL2 / CAL3.    *)
Mirror2Choices ==
    {{}, {Mir(2, "L", "busy", ExchangeAssigned(2), <<>>)},
     {Mir(2, "L", "free", ExchangeAssigned(2), <<TextLine>>)},
     {Mir(2, "L", "busy", "u1", <<MarkerLine("", "u1")>>)},
     {Mir(2, "A", "busy", ExchangeAssigned(2), <<MarkerLine("CAL2", "u2")>>)},
     {Mir(2, "A", "busy", ExchangeAssigned(2), <<MarkerLine("CAL3", "u2")>>)}}

CoreWorlds ==
    {World(c1 \cup c2, {}, m1 \cup m2, {}, Env(TRUE, TRUE, FALSE, FALSE)) :
        c1 \in Cal1Choices, c2 \in Cal2Choices, m1 \in Mirror1Choices, m2 \in Mirror2Choices}

(* A hand-made event beside a CAL2-tagged one.                             *)
TwoCal2Worlds ==
    {World(c2, {}, {Mir(1, "L", "busy", ExchangeAssigned(1), <<>>),
                    Mir(2, "A", "busy", ExchangeAssigned(2), <<MarkerLine("CAL2", u)>>)},
           {}, Env(TRUE, TRUE, FALSE, FALSE)) :
        c2 \in {{}, {Ev(icloudCal2, "u2", "A", 9, 10)}}, u \in {"u2", BlockUidE1}}

(* The synced copy of u1, and a hand-made mirror event, in every           *)
(* availability Graph knows.                                               *)
ShowAsWorlds ==
    {World(c1, {}, {Mir(1, "A", sa, "u1", <<MarkerLine("CAL1", "u1")>>)}, {},
           Env(TRUE, TRUE, FALSE, FALSE)) :
        c1 \in Cal1Choices \ {{}}, sa \in ShowAsValues \ {"busy", "free"}}
    \cup
    {World({}, {}, {Mir(2, "L", sa, ExchangeAssigned(2), <<>>)}, {},
           Env(TRUE, TRUE, FALSE, FALSE)) :
        sa \in ShowAsValues \ {"busy", "free"}}

(* A calendar name that discovery does not resolve.                        *)
EnvWorlds ==
    {World(c1 \cup c2, {}, m1 \cup m2, {}, Env(u1, u2, FALSE, FALSE)) :
        c1 \in {{}, {Ev(icloudCal1, "u1", "A", 9, 10)}},
        c2 \in {{}, {Ev(icloudCal2, "u2", "A", 9, 10)}},
        m1 \in {{}, {Mir(1, "A", "busy", "u1", <<MarkerLine("CAL1", "u1")>>)},
                {Mir(1, "M", "free", ExchangeAssigned(1), <<TextLine>>)}},
        m2 \in {{}, {Mir(2, "L", "busy", ExchangeAssigned(2), <<>>)},
                {Mir(2, "A", "busy", ExchangeAssigned(2), <<MarkerLine("CAL2", "u2")>>)}},
        u1 \in BOOLEAN, u2 \in {FALSE}}

(* The Exchange source calendar is configured: derived busy blocks.        *)
BlockWorlds ==
    {World(c2, {}, m2, x, Env(TRUE, TRUE, FALSE, TRUE)) :
        c2 \in {{}, {Ev(icloudCal2, BlockUidE1, BlockTitle, 9, 10)},
                {Ev(icloudCal2, BlockUidE1, BlockTitle, 10, 11)},
                {Ev(icloudCal2, "u2", "A", 9, 10),
                 Ev(icloudCal2, BlockUidE1, BlockTitle, 9, 10)}},
        m2 \in {{}, {Mir(2, "L", "busy", ExchangeAssigned(2), <<>>)},
                {Mir(2, "A", "busy", ExchangeAssigned(2), <<MarkerLine("CAL2", BlockUidE1)>>)}},
        x \in {{}} \cup {{[id |-> "e1", showAs |-> sa, start |-> 9, end |-> 10]} :
                            sa \in {"free", "tentative"}}}

(* Two appointments, the first one (free or busy) with a block.            *)
TwoAppointmentWorlds ==
    {World(c2, {}, {}, {[id |-> "e1", showAs |-> sa1, start |-> 10, end |-> 11],
                        [id |-> "e2", showAs |-> sa, start |-> 9, end |-> 10]},
           Env(TRUE, TRUE, FALSE, TRUE)) :
        c2 \in {{Ev(icloudCal2, BlockUidE1, BlockTitle, 9, 10)},
                {Ev(icloudCal2, BlockUidE1, BlockTitle, 9, 10),
                 Ev(icloudCal2, BlockUidE2, BlockTitle, 10, 11)}},
        sa1 \in {"free", "busy"}, sa \in {"tentative", "oof"}}

PausedChoices == {"", "true", " Yes", "ON ", "1", "false", "0", "paused"}

(* unset required variables, SYNC_LOOKBACK_DAYS, SYNC_LOOKAHEAD_DAYS       *)
ConfigChoices ==
    {<<{}, "7", "30">>, <<{"ICLOUD_USERNAME"}, "7", "30">>,
     <<{"MS_CLIENT_SECRET", "TIMEZONE"}, "7", "30">>, <<{}, "", "30">>,
     <<{"ICLOUD_CAL3", "MS_SOURCE_CALENDAR_NAME"}, "7", "30">>,
     <<{}, "abc", "30">>, <<{}, "7", "x1">>, <<{}, " 14", "-1">>, <<{}, "7d", "30">>}

(* The kill switch and the configuration in all their forms.               *)
ConfigWorlds ==
    {World({Ev(icloudCal1, "u1", "B", 9, 10)}, {},
           {Mir(1, "A", "busy", "u1", <<MarkerLine("CAL1", "u1")>>)}, {},
           [Env(TRUE, TRUE, FALSE, FALSE) EXCEPT
               !.SYNC_PAUSED = p, !.unset = c[1],
               !.SYNC_LOOKBACK_DAYS = c[2], !.SYNC_LOOKAHEAD_DAYS = c[3]]) :
        p \in PausedChoices, c \in ConfigChoices}

(* The public calendar URL is configured.                                  *)
PublicWorlds ==
    {World(c2, {Ev("public", "u2", "A", 9, 10)}, m2, {}, Env(TRUE, TRUE, TRUE, FALSE)) :
        c2 \in {{}, {Ev(icloudCal2, "u2", "A", 9, 10)}},
        m2 \in {{}, {Mir(2, "A", "busy", ExchangeAssigned(2), <<MarkerLine("CAL2", "u2")>>)},
                {Mir(2, "A", "busy", ExchangeAssigned(2), <<MarkerLine("CAL3", "u2")>>)}}}

(* One uid twice in the batch: on CAL1 and on CAL2, or twice in the public *)
(* calendar file (both relabelled CAL2).                                   *)
DuplicateUidWorlds ==
    {World({Ev(icloudCal1, "u1", "A", 9, 10), Ev(icloudCal2, "u1", "A", 9, 10)}, {},
           m, {}, Env(TRUE, TRUE, FALSE, FALSE)) :
        m \in {{}, {Mir(1, "A", "busy", "u1", <<MarkerLine("CAL1", "u1")>>)}}}
    \cup
    {World(c1, {Ev("public", "u2", "A", 9, 10), Ev("public", "u2", "A", 10, 11)},
           {}, {}, Env(TRUE, TRUE, TRUE, FALSE)) :
        c1 \in {{}, {Ev(icloudCal1, "u1", "A", 9, 10)}}}

(* An event beyond the look-ahead of the window.                           *)
Later(e) == [e EXCEPT !.start = @ + 1000, !.end = @ + 1000]

(* A source event, a mirror event, a derived block or a public event lies  *)
(* entirely outside the window while its counterpart lies inside.          *)
OutsideWindowWorlds ==
    {World({Later(Ev(icloudCal1, "u1", "A", 9, 10))} \cup c2, {}, m, {},
           Env(TRUE, TRUE, FALSE, FALSE)) :
        c2 \in {{}, {Ev(icloudCal2, "u2", "A", 9, 10)}},
        m \in {{}, {Mir(1, "A", "busy", "u1", <<MarkerLine("CAL1", "u1")>>)},
               {Mir(1, "B", "busy", "u1", <<MarkerLine("CAL1", "u1")>>)},
               {Later(Mir(1, "A", "busy", "u1", <<MarkerLine("CAL1", "u1")>>))}}}
    \cup
    {World({Ev(icloudCal1, "u1", t, 9, 10)}, {},
           {Later(Mir(1, "A", "busy", "u1", <<MarkerLine("CAL1", "u1")>>))}, {},
           Env(TRUE, TRUE, FALSE, FALSE)) : t \in {"A", "B"}}
    \cup
    {World({Later(Ev(icloudCal2, BlockUidE1, BlockTitle, 9, 10))}, {}, {},
           {[id |-> "e1", showAs |-> "busy", start |-> 9, end |-> 10]},
           Env(TRUE, TRUE, FALSE, TRUE)),
     World({Ev(icloudCal2, BlockUidE1, BlockTitle, 9, 10)}, {}, {},
           {Later([id |-> "e1", showAs |-> "busy", start |-> 9, end |-> 10])},
           Env(TRUE, TRUE, FALSE, TRUE)),
     World({}, {Later(Ev("public", "u2", "A", 9, 10))},
           {Mir(2, "A", "busy", ExchangeAssigned(2), <<MarkerLine("CAL2", "u2")>>)}, {},
           Env(TRUE, TRUE, TRUE, FALSE))}

(* Derived blocks are on the second calendar while the busy-block flow is  *)
(* off: no Exchange source calendar configured, or the second calendar not *)
(* resolved.                                                               *)
DisabledBlockWorlds ==
    {World({Ev(icloudCal2, BlockUidE1, BlockTitle, 9, 10)} \cup c2, {}, m2, x, e) :
        c2 \in {{}, {Ev(icloudCal2, "u2", "A", 9, 10)}},
        m2 \in {{}, {Mir(2, "A", "busy", ExchangeAssigned(2),
                         <<MarkerLine("CAL2", BlockUidE1)>>)},
                {Mir(2, BlockTitle, "busy", ExchangeAssigned(2),
                     <<MarkerLine("CAL2", BlockUidE1)>>)}},
        x \in {{}, {[id |-> "e1", showAs |-> "busy", start |-> 9, end |-> 10]}},
        e \in {Env(TRUE, TRUE, FALSE, FALSE), Env(TRUE, FALSE, FALSE, TRUE)}}

Worlds ==
    CoreWorlds \cup TwoCal2Worlds \cup ShowAsWorlds \cup EnvWorlds \cup BlockWorlds
    \cup TwoAppointmentWorlds \cup ConfigWorlds \cup PublicWorlds
    \cup DuplicateUidWorlds \cup OutsideWindowWorlds \cup DisabledBlockWorlds

Init ==
    /\ \E w \in Worlds :
          /\ icloud = w.icloud
          /\ publicCal = w.publicCal
          /\ mirror = w.mirror
          /\ exchange = w.exchange
          /\ env = w.env
    /\ nextId = 3
    /\ newUidIdx = 0
    /\ runNo = 0
    /\ failures = 0
    /\ pc = "idle"
    /\ iCloudEvents = <<>>
    /\ existingEventsInWindow = <<>>
    /\ cal2UidsFromIcloud = {}
    /\ restoredCal1Uids = {}
    /\ outlookToIcloud = ZeroOutlookToIcloud
    /\ exchangeToIcloud = ZeroExchangeToIcloud
    /\ syncResult = ZeroSyncResult
    /\ deletedCount = 0
    /\ srcCalls = {}
    /\ mirrorCalls = {}
    /\ reads = {}
    /\ startIcloud = {}
    /\ startMirror = {}
    /\ result = NoResult
    /\ prev = [runNo |-> 0, iCloudEvents |-> <<>>, syncResult |-> ZeroSyncResult,
               result |-> NoResult, srcCalls |-> {}, mirrorCalls |-> {},
               failures |-> 0, overlapping |-> FALSE,
               edited |-> NoEdit, pending |-> NoEdit]

(***************************************************************************)
(* One invocation of the handler.                                          *)
(***************************************************************************)
Calendars == {icloudCal1, icloudCal2}

(* Kill switch: SYNC_PAUSED is true, 1, yes or on, in any case, trimmed.   *)
isSyncPaused(v) ==
    IF v = "" THEN FALSE
    ELSE LET s == toLowerCase(trim(v))
         IN  s = "true" \/ s = "1" \/ s = "yes" \/ s = "on"

OptionalVars == {"ICLOUD_CAL3", "MS_SOURCE_CALENDAR_NAME"}

(* The variables of requiredVars that have no value and are not optional.  *)
missing(e) ==
    (e.unset \ OptionalVars)
    \cup (IF e.SYNC_LOOKBACK_DAYS = "" THEN {"SYNC_LOOKBACK_DAYS"} ELSE {})
    \cup (IF e.SYNC_LOOKAHEAD_DAYS = "" THEN {"SYNC_LOOKAHEAD_DAYS"} ELSE {})

(* Variant: the day counts are not checked.                                *)
validateEnvVarsMissingOnly(e) ==
    [ok |-> missing(e) = {},
     syncLookbackDays |-> parseInt(e.SYNC_LOOKBACK_DAYS).value,
     syncLookaheadDays |-> parseInt(e.SYNC_LOOKAHEAD_DAYS).value]

(* ok = FALSE stands for the Error validateEnvVars throws.                 *)
validateEnvVars(e) ==
    LET lookbackDays == parseInt(e.SYNC_LOOKBACK_DAYS)
        lookaheadDays == parseInt(e.SYNC_LOOKAHEAD_DAYS)
    IN  IF missing(e) # {}
        THEN [ok |-> FALSE, syncLookbackDays |-> 0, syncLookaheadDays |-> 0]
        ELSE IF isNaN(lookbackDays) \/ isNaN(lookaheadDays)
        THEN [ok |-> FALSE, syncLookbackDays |-> 0, syncLookaheadDays |-> 0]
        ELSE [ok |-> TRUE, syncLookbackDays |-> lookbackDays.value,
              syncLookaheadDays |-> lookaheadDays.value]

(* The window of a run, from the validated day counts.                     *)
window ==
    calculateSyncWindow(validateEnvVars(env).syncLookbackDays,
                        validateEnvVars(env).syncLookaheadDays)

(* Variant: the configuration is validated before the kill switch is read. *)
handlerEntryValidateFirst(e) ==
    IF ~validateEnvVars(e).ok THEN "error"
    ELSE IF isSyncPaused(e.SYNC_PAUSED) THEN "paused" ELSE "sync"

(* The way the handler takes: the kill switch first, then validation.      *)
handlerEntry(e) ==
    IF isSyncPaused(e.SYNC_PAUSED) THEN "paused"
    ELSE IF ~validateEnvVars(e).ok THEN "error" ELSE "sync"

(* What every way through the handler resets.                              *)
NewRun ==
    /\ pc \in {"idle", "done"}
    /\ runNo < MaxRuns
    /\ restoredCal1Uids' = {}
    /\ outlookToIcloud' = ZeroOutlookToIcloud
    /\ exchangeToIcloud' = ZeroExchangeToIcloud
    /\ syncResult' = ZeroSyncResult
    /\ deletedCount' = 0
    /\ srcCalls' = {}
    /\ mirrorCalls' = {}
    /\ startIcloud' = icloud
    /\ startMirror' = mirror
    /\ prev' = [runNo |-> runNo, iCloudEvents |-> iCloudEvents, syncResult |-> syncResult,
                result |-> result, srcCalls |-> srcCalls, mirrorCalls |-> mirrorCalls,
                failures |-> failures, overlapping |-> FALSE,
                edited |-> prev.pending, pending |-> NoEdit]
    /\ runNo' = runNo + 1
    /\ UNCHANGED worldVars

(* SYNC_PAUSED is set: 200 {success, paused} at once.                      *)
Paused ==
    /\ handlerEntry(env) = "paused"
    /\ NewRun
    /\ iCloudEvents' = <<>>
    /\ existingEventsInWindow' = <<>>
    /\ cal2UidsFromIcloud' = {}
    /\ reads' = {}
    /\ result' = [success |-> TRUE, status |-> 200, paused |-> TRUE]
    /\ pc' = "done"
    /\ UNCHANGED failures

(* validateEnvVars throws: the catch answers 500.                          *)
ConfigError ==
    /\ handlerEntry(env) = "error"
    /\ NewRun
    /\ iCloudEvents' = <<>>
    /\ existingEventsInWindow' = <<>>
    /\ cal2UidsFromIcloud' = {}
    /\ reads' = {}
    /\ result' = [success |-> FALSE, status |-> 500, paused |-> FALSE]
    /\ pc' = "done"
    /\ UNCHANGED failures

FetchFailures(fetchOk) ==
    Cardinality({c \in Calendars : ~fetchOk[c]})

Start ==
    /\ handlerEntry(env) = "sync"
    /\ NewRun
    /\ Cardinality(Untagged(mirror)) <= MaxNewUids - newUidIdx
    /\ \E fetchOk \in [Calendars -> BOOLEAN] :
          /\ \A c \in Calendars : ~fetchOk[c] => calUrlOf(env, c)
          /\ failures + FetchFailures(fetchOk) <= MaxFailures
          /\ failures' = failures + FetchFailures(fetchOk)
          /\ LET caldav == fetchAllEvents(icloud, env, window, fetchOk)
                 caldavUids == {ev.uid : ev \in Range(caldav)}
                 pub == IF env.icloudCal3
                        THEN publicAsCal2(publicCal, caldavUids, window, UidOrder) ELSE <<>>
             IN  /\ iCloudEvents' = caldav \o pub
                 /\ cal2UidsFromIcloud' = cal2UidsOf(caldav \o pub)
    /\ existingEventsInWindow' = listEventsInWindow(mirror, window, 1)
    /\ reads' = {"caldav", "token", "calendar", "mirror", "discover"}
                 \cup (IF env.icloudCal3 THEN {"public"} ELSE {})
    /\ result' = NoResult
    /\ pc' = "writeback"

(* The remote reads of steps 1-5 in the order the handler makes them: the  *)
(* CalDAV discovery and fetch (Basic auth), the public calendar, the Graph *)
(* token, the target calendar lookup, the mirror listing and the second    *)
(* CalDAV discovery.                                                       *)
ReadOrder == <<"caldav", "public", "token", "calendar", "mirror", "discover">>

ReadSteps(e) ==
    Range(ReadOrder) \ (IF e.icloudCal3 THEN {} ELSE {"public"})

ReadsUpTo(step, e) ==
    LET k == CHOOSE i \in DOMAIN ReadOrder : ReadOrder[i] = step
    IN  {ReadOrder[i] : i \in 1..k} \cap ReadSteps(e)

(* Variant: a failed target calendar lookup is swallowed.                  *)
thrownToHandlerButLookup(step) == step # "calendar"

(* Each of these awaits stands directly in the handler's try: what it      *)
(* throws reaches the catch of the handler.                                *)
thrownToHandler(step) == step \in Range(ReadOrder)

(* Authentication, the target calendar lookup or a listing fails: the run  *)
(* ends with the failure result before any write.                          *)
RunFatal ==
    /\ handlerEntry(env) = "sync"
    /\ NewRun
    /\ failures < MaxFailures
    /\ failures' = failures + 1
    /\ iCloudEvents' = <<>>
    /\ existingEventsInWindow' = <<>>
    /\ cal2UidsFromIcloud' = {}
    /\ \E step \in ReadSteps(env) :
          /\ reads' = ReadsUpTo(step, env)
          /\ IF thrownToHandler(step)
             THEN /\ result' = [success |-> FALSE, status |-> 500, paused |-> FALSE]
                  /\ pc' = "done"
             ELSE /\ result' = NoResult
                  /\ pc' = "writeback"

WriteBack ==
    /\ pc = "writeback"
    /\ \E fail \in FailChoices(Len(existingEventsInWindow)) :
          LET st0 == [icloud |-> icloud, mirror |-> mirror,
                      cal2Uids |-> cal2UidsFromIcloud, restored1 |-> {},
                      o2i |-> outlookToIcloud, srcCalls |-> srcCalls,
                      mirrorCalls |-> mirrorCalls, newIdx |-> newUidIdx, nfail |-> 0]
              st == WriteBackLoop(st0, existingEventsInWindow, 1, fail, iCloudEvents, env)
          IN  /\ st.nfail = Cardinality(fail)
              /\ icloud' = st.icloud
              /\ mirror' = st.mirror
              /\ cal2UidsFromIcloud' = st.cal2Uids
              /\ restoredCal1Uids' = st.restored1
              /\ outlookToIcloud' = st.o2i
              /\ srcCalls' = st.srcCalls
              /\ mirrorCalls' = st.mirrorCalls
              /\ newUidIdx' = st.newIdx
              /\ failures' = failures + st.nfail
    /\ pc' = "delete"
    /\ UNCHANGED <<publicCal, exchange, env, nextId, runNo, iCloudEvents,
                   existingEventsInWindow, exchangeToIcloud, syncResult, deletedCount,
                   reads, startIcloud, startMirror, result, prev>>

DeleteFromIcloud ==
    /\ pc = "delete"
    /\ \E fail \in FailChoices(Len(iCloudEvents)) :
          LET st0 == [icloud |-> icloud, o2i |-> outlookToIcloud,
                      srcCalls |-> srcCalls, nfail |-> 0]
              st == DeleteLoop(st0, iCloudEvents, 1, fail, existingEventsInWindow)
          IN  /\ st.nfail = Cardinality(fail)
              /\ icloud' = st.icloud
              /\ outlookToIcloud' = st.o2i
              /\ srcCalls' = st.srcCalls
              /\ failures' = failures + st.nfail
    /\ pc' = "blocks"
    /\ UNCHANGED <<publicCal, mirror, exchange, env, nextId, newUidIdx, runNo,
                   iCloudEvents, existingEventsInWindow, cal2UidsFromIcloud,
                   restoredCal1Uids, exchangeToIcloud, syncResult, deletedCount,
                   mirrorCalls, reads, startIcloud, startMirror, result, prev>>

ExchangeToIcloud ==
    /\ pc = "blocks"
    /\ IF env.msSourceCalendarName /\ env.cal2Url
       THEN \E fail \in FailChoices(Cardinality(exchange) + Len(iCloudEvents)) :
               LET st0 == [icloud |-> icloud, x2i |-> exchangeToIcloud,
                           srcCalls |-> srcCalls, thrown |-> FALSE, nfail |-> 0]
                   st == ExchangeToIcloudStep(st0, fail, exchange, window, iCloudEvents)
               IN  /\ st.nfail = Cardinality(fail)
                   /\ icloud' = st.icloud
                   /\ exchangeToIcloud' = st.x2i
                   /\ srcCalls' = st.srcCalls
                   /\ failures' = failures + st.nfail
                   /\ reads' = reads \cup {"exchange"}
                   /\ IF thrownFromBlockFlow(st.thrown)
                      THEN /\ result' = [success |-> FALSE, status |-> 500,
                                         paused |-> FALSE]
                           /\ pc' = "done"
                      ELSE /\ result' = result
                           /\ pc' = "forward"
       ELSE /\ pc' = "forward"
            /\ UNCHANGED <<icloud, exchangeToIcloud, srcCalls, failures, reads, result>>
    /\ UNCHANGED <<publicCal, mirror, exchange, env, nextId, newUidIdx, runNo,
                   iCloudEvents, existingEventsInWindow, cal2UidsFromIcloud,
                   restoredCal1Uids, outlookToIcloud, syncResult, deletedCount,
                   mirrorCalls, startIcloud, startMirror, prev>>

ForwardSync ==
    /\ pc = "forward"
    /\ \E fail \in FailChoices(Len(iCloudEvents)) :
          IF <<0, 1>> \in fail
          THEN (* listEventsInWindow inside syncEvents throws: the run fails *)
               /\ fail = {<<0, 1>>}
               /\ failures' = failures + 1
               /\ result' = [success |-> FALSE, status |-> 500, paused |-> FALSE]
               /\ pc' = "done"
               /\ UNCHANGED <<mirror, nextId, syncResult, mirrorCalls>>
          ELSE LET st0 == [mirror |-> mirror, nextId |-> nextId, created |-> 0,
                           updated |-> 0, skipped |-> 0, createdEventIds |-> {},
                           processedUids |-> {}, mirrorCalls |-> mirrorCalls,
                           nfail |-> 0]
                   st == syncEvents(st0, iCloudEventsForOutlook(iCloudEvents), 1, fail,
                                    listEventsInWindow(mirror, window, 1))
               IN  /\ st.nfail = Cardinality(fail)
                   /\ mirror' = st.mirror
                   /\ nextId' = st.nextId
                   /\ syncResult' = [created |-> st.created, updated |-> st.updated,
                                     skipped |-> st.skipped,
                                     createdEventIds |-> st.createdEventIds]
                   /\ mirrorCalls' = st.mirrorCalls
                   /\ failures' = failures + st.nfail
                   /\ result' = result
                   /\ pc' = "sweep"
    /\ reads' = reads \cup {"forward"}
    /\ UNCHANGED <<icloud, publicCal, exchange, env, newUidIdx, runNo, iCloudEvents,
                   existingEventsInWindow, cal2UidsFromIcloud, restoredCal1Uids,
                   outlookToIcloud, exchangeToIcloud, deletedCount, srcCalls,
                   startIcloud, startMirror, prev>>

orphanedEvents ==
    orphanedEventsOf(existingEventsInWindow, syncResult.createdEventIds,
                     cal1UidsOf(iCloudEvents), restoredCal1Uids, cal2UidsFromIcloud,
                     cal3UidsOf(iCloudEvents))

OrphanSweep ==
    /\ pc = "sweep"
    /\ \E fail \in FailChoices(Len(orphanedEvents)) :
          LET st0 == [mirror |-> mirror, deletedCount |-> 0,
                      mirrorCalls |-> mirrorCalls, nfail |-> 0]
              st == SweepLoop(st0, orphanedEvents, 1, fail)
          IN  /\ st.nfail = Cardinality(fail)
              /\ mirror' = st.mirror
              /\ deletedCount' = st.deletedCount
              /\ mirrorCalls' = st.mirrorCalls
              /\ failures' = failures + st.nfail
    /\ result' = [success |-> TRUE, status |-> 200, paused |-> FALSE]
    /\ pc' = "done"
    /\ UNCHANGED <<icloud, publicCal, exchange, env, nextId, newUidIdx, runNo,
                   iCloudEvents, existingEventsInWindow, cal2UidsFromIcloud,
                   restoredCal1Uids, outlookToIcloud, exchangeToIcloud, syncResult,
                   srcCalls, reads, startIcloud, startMirror, prev>>

(* Between two runs the owner of the Exchange source calendar marks an     *)
(* appointment free, or deletes it; what the last run left is no longer    *)
(* the outcome for the calendars as they are now (pc returns to idle).     *)
ExchangeChange ==
    /\ pc = "done"
    /\ runNo < MaxRuns
    /\ env.msSourceCalendarName
    /\ \E x \in exchange :
          /\ isBusy(x)
          /\ \/ exchange' = (exchange \ {x}) \cup {[x EXCEPT !.showAs = "free"]}
             \/ exchange' = exchange \ {x}
    /\ pc' = "idle"
    /\ UNCHANGED <<icloud, publicCal, mirror, env, nextId, newUidIdx, runNo, failures,
                   runVars>>

Next ==
    \/ Paused
    \/ ConfigError
    \/ Start
    \/ RunFatal
    \/ WriteBack
    \/ DeleteFromIcloud
    \/ ExchangeToIcloud
    \/ ForwardSync
    \/ OrphanSweep
    \/ ExchangeChange

Spec == Init /\ [][Next]_vars

(***************************************************************************)
(* Overlapping invocations.  The handler takes no lock: a second           *)
(* invocation can make its reads of steps 1-5 while the first has not yet  *)
(* written.  OverlapStart is that second invocation in the schedule where  *)
(* its writes follow the writes of the first: its locals hold what the     *)
(* first one read, the calendars are as the first one left them.           *)
(***************************************************************************)
OverlapStart ==
    /\ pc = "done"
    /\ runNo > 0 /\ runNo < MaxRuns
    /\ result.success /\ ~result.paused
    /\ Cardinality(Untagged(Range(existingEventsInWindow))) <= MaxNewUids - newUidIdx
    /\ restoredCal1Uids' = {}
    /\ outlookToIcloud' = ZeroOutlookToIcloud
    /\ exchangeToIcloud' = ZeroExchangeToIcloud
    /\ syncResult' = ZeroSyncResult
    /\ deletedCount' = 0
    /\ srcCalls' = {}
    /\ mirrorCalls' = {}
    /\ startIcloud' = icloud
    /\ startMirror' = mirror
    /\ prev' = [runNo |-> runNo, iCloudEvents |-> iCloudEvents, syncResult |-> syncResult,
                result |-> result, srcCalls |-> srcCalls, mirrorCalls |-> mirrorCalls,
                failures |-> failures, overlapping |-> TRUE,
                edited |-> NoEdit, pending |-> NoEdit]
    /\ runNo' = runNo + 1
    /\ cal2UidsFromIcloud' = cal2UidsOf(iCloudEvents)
    /\ reads' = {"caldav", "token", "calendar", "mirror", "discover"}
                 \cup (IF env.icloudCal3 THEN {"public"} ELSE {})
    /\ result' = NoResult
    /\ pc' = "writeback"
    /\ UNCHANGED <<worldVars, failures, iCloudEvents, existingEventsInWindow>>

NextOverlap == Next \/ OverlapStart

SpecOverlap == Init /\ [][NextOverlap]_vars

(***************************************************************************)
(* Edits between two runs.  After a run without failure the user changes   *)
(* the title or the times of one side of a pair (a source event and the    *)
(* mirror event tagged with it) that agree; prev.pending names the side,   *)
(* and the next run finds it as prev.edited.                               *)
(***************************************************************************)
(* The pairs (source event, tagged mirror event) with equal title and time *)
(* on a calendar the handler resolves.                                     *)
AgreeingPairs ==
    {p \in icloud \X mirror :
        /\ ~startsWith(p[1].uid, ALTVINA_BLOCK_UID_PREFIX)
        /\ parseSyncMeta(p[2].body) =
               [syncSource |-> tagOfCalendar(p[1].cal), uid |-> p[1].uid]
        /\ p[2].subject = p[1].title
        /\ p[2].start = p[1].start /\ p[2].end = p[1].end
        /\ timeRange(p[1], window)
        /\ calUrlOf(env, p[1].cal)}

SourceEdit ==
    /\ pc = "done"
    /\ runNo > 0 /\ runNo < MaxRuns
    /\ result.success /\ ~result.paused
    /\ failures = 0
    /\ prev.pending = NoEdit
    /\ \E p \in AgreeingPairs :
          \E e \in {[p[1] EXCEPT !.title = IF @ = "B" THEN "A" ELSE "B"],
                    [p[1] EXCEPT !.start = @ + 1, !.end = @ + 1]} :
              /\ icloud' = (icloud \ {p[1]}) \cup {e}
              /\ prev' = [prev EXCEPT !.pending =
                             [side |-> "source", cal |-> p[1].cal,
                              uid |-> p[1].uid, id |-> p[2].id]]
    /\ pc' = "idle"
    /\ UNCHANGED <<publicCal, mirror, exchange, env, nextId, newUidIdx, runNo, failures,
                   iCloudEvents, existingEventsInWindow, cal2UidsFromIcloud,
                   restoredCal1Uids, outlookToIcloud, exchangeToIcloud, syncResult,
                   deletedCount, srcCalls, mirrorCalls, reads, startIcloud,
                   startMirror, result>>

MirrorEdit ==
    /\ pc = "done"
    /\ runNo > 0 /\ runNo < MaxRuns
    /\ result.success /\ ~result.paused
    /\ failures = 0
    /\ prev.pending = NoEdit
    /\ \E p \in AgreeingPairs :
          \E m \in {[p[2] EXCEPT !.subject = IF @ = "B" THEN "A" ELSE "B"],
                    [p[2] EXCEPT !.start = @ + 1, !.end = @ + 1]} :
              /\ mirror' = (mirror \ {p[2]}) \cup {m}
              /\ prev' = [prev EXCEPT !.pending =
                             [side |-> "mirror", cal |-> p[1].cal,
                              uid |-> p[1].uid, id |-> p[2].id]]
    /\ pc' = "idle"
    /\ UNCHANGED <<icloud, publicCal, exchange, env, nextId, newUidIdx, runNo, failures,
                   iCloudEvents, existingEventsInWindow, cal2UidsFromIcloud,
                   restoredCal1Uids, outlookToIcloud, exchangeToIcloud, syncResult,
                   deletedCount, srcCalls, mirrorCalls, reads, startIcloud,
                   startMirror, result>>

NextEdits == Next \/ SourceEdit \/ MirrorEdit

SpecEdits == Init /\ [][NextEdits]_vars

(***************************************************************************)
(* The handler invoked again and again by the schedule (every 15 minutes), *)
(* each invocation after the previous one has returned, with no remote     *)
(* failure and nobody editing a calendar.  The run counter is bookkeeping  *)
(* of the model only: NextInvocation winds it back so that the schedule    *)
(* never ends.  Mirror ids are capped to keep the state space finite.      *)
(***************************************************************************)
MaxMirrorId == 5

AtBound ==
    \/ nextId > MaxMirrorId
    \/ Cardinality(Untagged(mirror)) > MaxNewUids - newUidIdx

NextInvocation ==
    /\ pc = "done"
    /\ runNo = MaxRuns
    /\ ~AtBound
    /\ runNo' = MaxRuns - 1
    /\ UNCHANGED <<worldVars, runVars, failures, pc>>

NextScheduled ==
    \/ Paused
    \/ ConfigError
    \/ Start /\ failures' = failures
    \/ WriteBack /\ failures' = failures
    \/ DeleteFromIcloud /\ failures' = failures
    \/ ExchangeToIcloud /\ failures' = failures
    \/ ForwardSync /\ failures' = failures
    \/ OrphanSweep /\ failures' = failures
    \/ NextInvocation

(* The schedule fires whenever the previous invocation has returned.        *)
SpecScheduled == Init /\ [][NextScheduled]_vars /\ WF_vars(NextInvocation)

(***************************************************************************)
(* The metadata codec on its own.  The body, the tag and the uid come from *)
(* bounded sets; each step writes the body of a mirror event again with    *)
(* the marker of one (tag, uid) appended, as createEvent and updateEvent   *)
(* build body.content from the description.                                *)
(***************************************************************************)
CodecBodies ==
    {<<>>, <<TextLine>>, <<TextLine, "">>, <<"Synced UID: u1">>,
     <<MarkerLine("CAL1", "u9")>>, <<TextLine, MarkerToken>>}

CodecTags == Tags \cup {"", "CAL 1"}

CodecUids == {"", "u1", BlockUidE1, "u 1"}

InitCodec ==
    /\ icloud = {}
    /\ publicCal = {}
    /\ \E b \in CodecBodies : mirror = {Mir(1, "L", "busy", ExchangeAssigned(1), b)}
    /\ exchange = {}
    /\ env = Env(TRUE, TRUE, FALSE, FALSE)
    /\ nextId = 3
    /\ newUidIdx = 0
    /\ runNo = 0
    /\ failures = 0
    /\ pc = "idle"
    /\ iCloudEvents = <<>>
    /\ existingEventsInWindow = <<>>
    /\ cal2UidsFromIcloud = {}
    /\ restoredCal1Uids = {}
    /\ outlookToIcloud = ZeroOutlookToIcloud
    /\ exchangeToIcloud = ZeroExchangeToIcloud
    /\ syncResult = ZeroSyncResult
    /\ deletedCount = 0
    /\ srcCalls = {}
    /\ mirrorCalls = {}
    /\ reads = {}
    /\ startIcloud = {}
    /\ startMirror = {}
    /\ result = NoResult
    /\ prev = [runNo |-> 0, iCloudEvents |-> <<>>, syncResult |-> ZeroSyncResult,
               result |-> NoResult, srcCalls |-> {}, mirrorCalls |-> {},
               failures |-> 0, overlapping |-> FALSE,
               edited |-> NoEdit, pending |-> NoEdit]

(* body.content := description, then the marker of (tag, uid).             *)
withMarker(m, tag, uid) == [m EXCEPT !.body = encodeSyncMeta(m.body, tag, uid)]

TagBody ==
    /\ runNo < MaxRuns
    /\ \E m \in mirror, tag \in CodecTags, uid \in CodecUids :
          mirror' = (mirror \ {m}) \cup {withMarker(m, tag, uid)}
    /\ runNo' = runNo + 1
    /\ UNCHANGED <<icloud, publicCal, exchange, env, nextId, newUidIdx, failures, pc,
                   runVars>>

NextCodec == TagBody

SpecCodec == InitCodec /\ [][NextCodec]_vars

(***************************************************************************)
(* normalizeEvent on its own (lib/icloud.ts).  Instants are whole hours    *)
(* since an epoch midnight; a VEVENT carries its DTSTART and the end       *)
(* ICAL.Event.endDate yields (DTEND, DTSTART + DURATION, or DTSTART), both *)
(* as wall-clock day and hour, the TZID of DTSTART, the VALUE parameter    *)
(* and whether a DTEND line with a time is in the text.                    *)
(***************************************************************************)
HoursPerDay == 24

(* ICAL.Time.toJSDate: the zone of a TZID is applied only when ical.js     *)
(* knows the zone; otherwise the time is floating and read as UTC.         *)
toJSDate(t, tzid, applied) ==
    t.day * HoursPerDay + t.hour
        + (IF applied /\ tzid = "America/Los_Angeles" THEN PstOffsetHours ELSE 0)

(* isAllDay: /DTSTART[^:]*VALUE=DATE/ is true for VALUE=DATE and for       *)
(* VALUE=DATE-TIME.  eventTimezone: group 1 of the DTSTART match (TZID),   *)
(* null for a date-only value.  All-day: start and end are set to UTC      *)
(* midnight, an end equal to the start is moved a day on.  Timed, Los      *)
(* Angeles: the start is shifted when its UTC hour is the hour written in  *)
(* DTSTART; the end is shifted when a DTEND value was matched and its hour *)
(* is the UTC hour toJSDate gave.                                          *)
normalizeEvent(v, applied) ==
    LET isAllDay == startsWith(v.value, "DATE")
        eventTimezone == IF v.value = "DATE" THEN "" ELSE v.tzid
        startDate == toJSDate(v.start, v.tzid, applied)
        endDate == toJSDate(v.end, v.tzid, applied)
    IN  IF isAllDay
        THEN LET s0 == (startDate \div HoursPerDay) * HoursPerDay
                 e0 == (endDate \div HoursPerDay) * HoursPerDay
             IN  [uid |-> v.uid, isAllDay |-> TRUE, start |-> s0,
                  end |-> IF e0 = s0 THEN s0 + HoursPerDay ELSE e0]
        ELSE IF /\ eventTimezone # "" /\ eventTimezone # "UTC"
                /\ eventTimezone = "America/Los_Angeles"
             THEN [uid |-> v.uid, isAllDay |-> FALSE,
                   start |-> IF startDate % HoursPerDay = v.start.hour
                             THEN startDate + PstOffsetHours ELSE startDate,
                   end |-> IF v.hasDtend /\ endDate % HoursPerDay = v.end.hour
                           THEN endDate + PstOffsetHours ELSE endDate]
             ELSE [uid |-> v.uid, isAllDay |-> FALSE, start |-> startDate, end |-> endDate]

(* Well-formed VEVENTs: the end is not before the start.  Date values have *)
(* no TZID and no hour; a timed event may carry DTEND, or DURATION or      *)
(* nothing (no DTEND line).                                                *)
VEvents ==
    {[uid |-> "u1", value |-> "DATE", tzid |-> "", start |-> [day |-> d, hour |-> 0],
      end |-> [day |-> d + n, hour |-> 0], hasDtend |-> n > 0] :
        d \in 0..1, n \in 0..2}
    \cup
    {[uid |-> "u1", value |-> val, tzid |-> tz, start |-> [day |-> d, hour |-> h],
      end |-> [day |-> d + (h + n) \div HoursPerDay, hour |-> (h + n) % HoursPerDay],
      hasDtend |-> dt] :
        val \in {"", "DATE-TIME"}, tz \in {"", "UTC", "America/Los_Angeles"},
        d \in 0..1, h \in {0, 9, 20}, n \in {0, 1, 9}, dt \in BOOLEAN}

InitNormalize ==
    /\ icloud = {}
    /\ \E v \in VEvents : publicCal = {v}
    /\ mirror = {}
    /\ exchange = {}
    /\ env = Env(TRUE, TRUE, TRUE, FALSE)
    /\ nextId = 3
    /\ newUidIdx = 0
    /\ runNo = 0
    /\ failures = 0
    /\ pc = "idle"
    /\ iCloudEvents = <<>>
    /\ existingEventsInWindow = <<>>
    /\ cal2UidsFromIcloud = {}
    /\ restoredCal1Uids = {}
    /\ outlookToIcloud = ZeroOutlookToIcloud
    /\ exchangeToIcloud = ZeroExchangeToIcloud
    /\ syncResult = ZeroSyncResult
    /\ deletedCount = 0
    /\ srcCalls = {}
    /\ mirrorCalls = {}
    /\ reads = {}
    /\ startIcloud = {}
    /\ startMirror = {}
    /\ result = NoResult
    /\ prev = [runNo |-> 0, iCloudEvents |-> <<>>, syncResult |-> ZeroSyncResult,
               result |-> NoResult, srcCalls |-> {}, mirrorCalls |-> {},
               failures |-> 0, overlapping |-> FALSE,
               edited |-> NoEdit, pending |-> NoEdit]

(* One fetch: every VEVENT of the calendar is normalized and pushed.       *)
Normalize ==
    /\ pc = "idle"
    /\ \E v \in publicCal, applied \in BOOLEAN :
          iCloudEvents' = <<normalizeEvent(v, applied)>>
    /\ pc' = "done"
    /\ reads' = {"public"}
    /\ UNCHANGED <<worldVars, runNo, failures, existingEventsInWindow,
                   cal2UidsFromIcloud, restoredCal1Uids, outlookToIcloud,
                   exchangeToIcloud, syncResult, deletedCount, srcCalls, mirrorCalls,
                   startIcloud, startMirror, result, prev>>

NextNormalize == Normalize

SpecNormalize == InitNormalize /\ [][NextNormalize]_vars

(***************************************************************************)
(* Properties.  What a run did is read off the calls it issued and the     *)
(* calendars before (startIcloud, startMirror) and after it.               *)
(***************************************************************************)
(* A run that went through all steps (not one the kill switch ended).     *)
RunCompleted == pc = "done" /\ runNo > 0 /\ result.success /\ ~result.paused

(* The mirror events the run lists: those of the window.                   *)
ListedMirror == {m \in startMirror : timeRange(m, window)}

metaOf(m) == parseSyncMeta(m.body)

Meta(tag, uid) == [syncSource |-> tag, uid |-> uid]

IsDerivedUid(uid) == startsWith(uid, ALTVINA_BLOCK_UID_PREFIX)

(* The uids fetched from the source for a tag in this run.                 *)
KnownUids(tag) ==
    IF tag = "CAL1" THEN cal1UidsOf(iCloudEvents)
    ELSE IF tag = "CAL2" THEN cal2UidsOf(iCloudEvents)
    ELSE cal3UidsOf(iCloudEvents)

(* The uids write-back restored for a tag in this run.                     *)
RestoredUids(tag) ==
    {c.uid : c \in {x \in srcCalls :
                       x.op = "restore" /\ x.ok /\ tagOfCalendar(x.cal) = tag}}

(* The mirror events the orphan sweep deleted in this run.                 *)
SweptIds == {c.id : c \in {x \in mirrorCalls : x.flow = "sweep" /\ x.ok}}

ForwardCalls(calls) == {c \in calls : c.flow = "forward"}

(* The source event forward sync processes for a uid: the first listed.    *)
ForwardEvent(uid) ==
    LET evs == iCloudEventsForOutlook(iCloudEvents)
        idx == {i \in DOMAIN evs : evs[i].uid = uid}
    IN  evs[CHOOSE i \in idx : \A j \in idx : i <= j]

(* C1: in the orphan sweep, for every tag T of CAL1, CAL2, CAL3: when no   *)
(* source uid is known for T in this run and no uid was restored for T,    *)
(* no mirror event tagged T is deleted.                                    *)
C1_OrphanSafety ==
    RunCompleted =>
        \A T \in Tags :
            (KnownUids(T) = {} /\ RestoredUids(T) = {}) =>
                \A m \in startMirror : metaOf(m).syncSource = T => m.id \notin SweptIds

(* A source event that is no derived block and that the mirror does not    *)
(* know, neither by its tag and uid nor by its iCalUId.                    *)
NoMirrorCounterpart(e, mir) ==
    /\ ~IsDerivedUid(e.uid)
    /\ \A m \in mir : metaOf(m) # Meta(tagOfCalendar(e.cal), e.uid) /\ m.iCalUId # e.uid

(* C2: a source event on CAL1 or CAL2 that exists when the run starts and  *)
(* has no mirror counterpart yet still exists on its calendar when the run *)
(* ends.                                                                   *)
C2_UnmirroredSourceEventSurvives ==
    RunCompleted =>
        \A e \in startIcloud :
            NoMirrorCounterpart(e, startMirror) => HasResource(icloud, e.cal, e.uid)

(* C3: after a completed run, at most one mirror event decodes to a given  *)
(* (tag, uid).                                                             *)
C3_MirrorUniqueness ==
    RunCompleted =>
        \A m1, m2 \in mirror :
            (metaOf(m1).syncSource # "" /\ metaOf(m1) = metaOf(m2)) => m1.id = m2.id

(* C4: when forward sync runs a second time with the same source events,   *)
(* nothing having failed and neither calendar having changed, it reports   *)
(* created = 0 and updated = 0 and issues no create or update call.        *)
C4_ForwardSyncIdempotent ==
    (/\ RunCompleted
     /\ runNo >= 2
     /\ prev.result.success
     /\ failures = 0
     /\ iCloudEventsForOutlook(iCloudEvents) = iCloudEventsForOutlook(prev.iCloudEvents)
     /\ srcCalls = {} /\ prev.srcCalls = {}
     /\ mirrorCalls = ForwardCalls(mirrorCalls)
     /\ icloud = startIcloud /\ mirror = startMirror)
    => /\ syncResult.created = 0
       /\ syncResult.updated = 0
       /\ ForwardCalls(mirrorCalls) = {}

(* The mirror events forward sync updated whose availability was free.     *)
FreeUpdated ==
    {m0 \in startMirror :
        /\ m0.showAs = "free"
        /\ \E c \in ForwardCalls(mirrorCalls) : c.op = "update" /\ c.ok /\ c.id = m0.id}

ShowAsBefore(id) ==
    IF \E m0 \in startMirror : m0.id = id
    THEN (CHOOSE m0 \in startMirror : m0.id = id).showAs ELSE ""

Unmirrored ==
    {ev \in Range(iCloudEventsForOutlook(iCloudEvents)) :
        \A m \in startMirror : metaOf(m) # Meta(syncSourceOf(ev.calendarName), ev.uid)}

MirrorCopies(ev) ==
    {m \in mirror :
        /\ metaOf(m) = Meta(syncSourceOf(ev.calendarName), ev.uid)
        /\ m.subject = ev.title /\ m.start = ev.start /\ m.end = ev.end}

(* C7: for a source event in the window with no mirror event for its       *)
(* (tag, uid), a run in which nothing fails creates exactly one mirror     *)
(* event with its title, start and end and the metadata (tag, uid), and    *)
(* counts it once in stats.created.                                        *)
C7_CreatesExactlyOne ==
    (RunCompleted /\ failures = 0) =>
        /\ \A ev \in Unmirrored :
              /\ Cardinality(MirrorCopies(ev)) = 1
              /\ \A m \in MirrorCopies(ev) : m.id \in syncResult.createdEventIds
        /\ syncResult.created = Cardinality(syncResult.createdEventIds)

C7_Witness ==
    /\ RunCompleted /\ failures = 0
    /\ syncResult.created = 1
    /\ \E ev \in Unmirrored :
          /\ Cardinality(MirrorCopies(ev)) = 1
          /\ \A m \in MirrorCopies(ev) : m.id \in syncResult.createdEventIds

(* The source events the run removed (derived blocks are not source        *)
(* events: the busy-block step owns them).                                 *)
DeletedSourceEvents ==
    {e \in startIcloud : ~IsDerivedUid(e.uid) /\ ~HasResource(icloud, e.cal, e.uid)}

(* C8: the run deletes a source event of CAL1 or CAL2 only if no mirror    *)
(* event decodes to its (tag, uid) and no mirror event has an iCalUId      *)
(* equal to its uid.                                                       *)
C8_DeleteOnlyUnreferenced ==
    \A e \in DeletedSourceEvents :
        \A m \in ListedMirror :
            metaOf(m) # Meta(tagOfCalendar(e.cal), e.uid) /\ m.iCalUId # e.uid

C8_Witness ==
    /\ RunCompleted
    /\ DeletedSourceEvents # {}
    /\ \E e \in startIcloud, m \in startMirror :
          /\ m.iCalUId = e.uid
          /\ metaOf(m) # Meta(tagOfCalendar(e.cal), e.uid)
          /\ HasResource(icloud, e.cal, e.uid)

calendarOfTag(tag) == IF tag = "CAL1" THEN icloudCal1 ELSE icloudCal2

(* The mirror events with a writable tag whose source event was not found. *)
SourceMissing ==
    {m \in ListedMirror :
        /\ metaOf(m).syncSource \in {"CAL1", "CAL2"}
        /\ iCloudByCalAndUid(iCloudEvents, calendarOfTag(metaOf(m).syncSource),
                             metaOf(m).uid) = <<>>}

Restorable ==
    {m \in SourceMissing :
        /\ ~IsDerivedUid(metaOf(m).uid)
        /\ calUrlOf(env, calendarOfTag(metaOf(m).syncSource))}

RestoreCalls(m) ==
    {c \in srcCalls :
        /\ c.op = "restore"
        /\ c.cal = calendarOfTag(metaOf(m).syncSource)
        /\ c.uid = metaOf(m).uid}

TaggedByPreviousRun ==
    {<<u.id, c.uid>> : u \in {x \in prev.mirrorCalls : x.flow = "writeback" /\ x.ok},
                       c \in {x \in prev.srcCalls : x.op = "create" /\ x.ok}}

(* C10: after a run has created a source event for a mirror event without  *)
(* metadata and tagged it, the following run, nothing having failed,       *)
(* creates no further source event and no second mirror event for the new  *)
(* source uid.                                                             *)
C10_NoDuplicateCreation ==
    (/\ RunCompleted
     /\ runNo >= 2
     /\ prev.result.success
     /\ failures = 0
     /\ TaggedByPreviousRun # {})
    => /\ \A c \in srcCalls : ~(c.flow = "writeback" /\ c.op = "create")
       /\ \A t \in TaggedByPreviousRun :
             Cardinality({m \in mirror : metaOf(m) = Meta("CAL2", t[2])}) <= 1

(***************************************************************************)
(* Write-back (C11 - C15).                                                 *)
(***************************************************************************)
(* The uids of the source events on the writable calendars as the run      *)
(* started.                                                                *)
SourceUids == {e.uid : e \in startIcloud}

WritebackCreates == {c \in srcCalls : c.flow = "writeback" /\ c.op = "create"}

(* C11: write-back creates a source event for a mirror event only when the *)
(* mirror event carries no metadata and its fallback identity (iCalUId) is *)
(* the uid of no source event; a mirror event that lost its metadata but   *)
(* whose iCalUId is the uid of an existing source event causes no create.  *)
C11_CreateOnlyWithoutFallbackMatch ==
    WritebackCreates # {} =>
        \E m \in startMirror : metaOf(m) = NoMeta /\ m.iCalUId \notin SourceUids

(* The remote calls that failed in the running invocation.                 *)
RunFailures == failures - prev.failures

(* The source events the previous run created for hand-made mirror events  *)
(* none of which it managed to tag.                                        *)
CreatedButUntagged ==
    IF /\ \E u \in prev.mirrorCalls : u.flow = "writeback"
       /\ \A u \in prev.mirrorCalls : u.flow = "writeback" => ~u.ok
    THEN {c.uid : c \in {x \in prev.srcCalls :
                            x.flow = "writeback" /\ x.op = "create" /\ x.ok}}
    ELSE {}

(* C12: when the previous run created a source event for a hand-made       *)
(* mirror event and the tag update failed, the next run, nothing failing,  *)
(* creates a second source event, and at its end both source events exist  *)
(* for the one mirror event.                                               *)
C12_SecondSourceEventBesideFirst ==
    (/\ RunCompleted
     /\ runNo >= 2
     /\ prev.result.success
     /\ RunFailures = 0
     /\ CreatedButUntagged # {})
    => \A a \in CreatedButUntagged :
          \E c \in WritebackCreates :
              /\ c.ok
              /\ c.uid # a
              /\ HasResource(icloud, icloudCal2, c.uid)
              /\ HasResource(icloud, icloudCal2, a)

(* The mirror events with a writable tag whose source event was fetched    *)
(* together with its write-back handle (event URL).                        *)
FoundWithHandle ==
    {m \in ListedMirror :
        /\ metaOf(m).syncSource \in {"CAL1", "CAL2"}
        /\ LET found == iCloudByCalAndUid(iCloudEvents,
                                          calendarOfTag(metaOf(m).syncSource),
                                          metaOf(m).uid)
           IN  found # <<>> /\ found[1].eventUrl # <<>>}

SourceOf(m) ==
    iCloudByCalAndUid(iCloudEvents, calendarOfTag(metaOf(m).syncSource), metaOf(m).uid)[1]

Differs(m) ==
    \/ m.subject # SourceOf(m).title
    \/ m.start # SourceOf(m).start
    \/ m.end # SourceOf(m).end

(* The source writes write-back issued for the source event of m.          *)
WritebackCallsFor(m) ==
    {c \in srcCalls :
        /\ c.flow = "writeback"
        /\ c.cal = calendarOfTag(metaOf(m).syncSource)
        /\ c.uid = metaOf(m).uid}

(* C13: for a mirror event with metadata whose source event was fetched    *)
(* with a write-back handle, write-back issues a source update if and only *)
(* if title, start or end differ between the two; when all three are equal *)
(* it issues no source write for that event.  (Mirror events that carry    *)
(* the same metadata share their source event and its writes.)             *)
C13_UpdateIffDifferent ==
    pc \notin {"idle", "writeback"} =>
        \A m \in FoundWithHandle :
            LET sharing == {n \in FoundWithHandle : metaOf(n) = metaOf(m)}
            IN  /\ (\E n \in sharing : Differs(n))
                       <=> \E c \in WritebackCallsFor(m) : c.op = "update"
                /\ (\A n \in sharing : ~Differs(n)) => WritebackCallsFor(m) = {}

C13_Witness ==
    /\ RunCompleted
    /\ \E m1 \in FoundWithHandle, m2 \in FoundWithHandle :
          /\ m1.subject = SourceOf(m1).title
          /\ m1.start # SourceOf(m1).start
          /\ \E c \in WritebackCallsFor(m1) : c.op = "update" /\ c.ok
          /\ ~Differs(m2)
          /\ WritebackCallsFor(m2) = {}

WritebackCalls == {c \in srcCalls : c.flow = "writeback"}

ReadOnlyTagged == {m \in startMirror : metaOf(m).syncSource = "CAL3"}

(* C14: a mirror event tagged with the read-only tag CAL3 causes no create,*)
(* update or delete on a source calendar in write-back: every source write *)
(* of write-back belongs to a mirror event without metadata (create) or to *)
(* one tagged CAL1 or CAL2 with the uid written (update, restore), and     *)
(* write-back issues no delete.                                            *)
C14_ReadOnlyTagCausesNoSourceWrite ==
    \A c \in WritebackCalls :
        /\ c.op \in {"create", "update", "restore"}
        /\ c.op = "create" => \E m \in startMirror : metaOf(m) = NoMeta
        /\ c.op # "create" =>
              \E m \in startMirror : metaOf(m) = Meta(tagOfCalendar(c.cal), c.uid)

C14_Witness ==
    /\ RunCompleted
    /\ \E m \in ReadOnlyTagged :
          /\ \E e \in startIcloud : e.uid = metaOf(m).uid /\ e.start # m.start
          /\ \A c \in WritebackCalls : c.uid # metaOf(m).uid

(* C15: write-back never restores an event whose metadata uid lies in the  *)
(* derived-block namespace (prefix altvina-): it issues no create for such *)
(* a uid, and no derived block exists after write-back that did not exist  *)
(* before it, even when the uid is missing from the source calendar.       *)
C15_NoRestoreOfDerivedBlock ==
    /\ \A c \in WritebackCalls : c.op \in {"create", "restore"} => ~IsDerivedUid(c.uid)
    /\ pc = "delete" =>
          \A e \in icloud : IsDerivedUid(e.uid) => HasResource(startIcloud, e.cal, e.uid)

C15_Witness ==
    /\ pc = "delete"
    /\ env.cal2Url
    /\ \E m \in startMirror :
          /\ metaOf(m).syncSource = "CAL2"
          /\ IsDerivedUid(metaOf(m).uid)
          /\ ~HasResource(startIcloud, icloudCal2, metaOf(m).uid)
          /\ ~HasResource(icloud, icloudCal2, metaOf(m).uid)
    /\ \E c \in WritebackCalls : c.op = "create" /\ c.ok

(***************************************************************************)
(* Derived busy blocks (C16 - C18).                                        *)
(***************************************************************************)
BlockFlowEnabled == env.msSourceCalendarName /\ env.cal2Url

BlockUid(x) == ALTVINA_BLOCK_UID_PREFIX \o x.id

BlockCalls == {c \in srcCalls : c.flow = "blocks"}

(* C16: after any completed run with the busy-block flow enabled, runs in  *)
(* which a remote call of the flow failed included, no derived block on    *)
(* the target calendar belongs to an appointment whose availability is     *)
(* free.                                                                   *)
C16_NoBlockForFreeAppointment ==
    (RunCompleted /\ BlockFlowEnabled) =>
        \A x \in exchange :
            x.showAs = "free" => ~HasResource(icloud, icloudCal2, BlockUid(x))

BusyAppointments == {x \in exchange : isBusy(x) /\ timeRange(x, window)}

DerivedBlock(x) == Ev(icloudCal2, BlockUid(x), BlockTitle, x.start, x.end)

(* The derived blocks found as the run started whose appointment is gone   *)
(* or free.                                                                *)
StaleBlocks ==
    {e \in startIcloud :
        /\ e.cal = icloudCal2
        /\ IsDerivedUid(e.uid)
        /\ slice(e.uid, Len(ALTVINA_BLOCK_UID_PREFIX)) \notin {x.id : x \in BusyAppointments}}

(* C17: in a run with the flow enabled and no failed call, an appointment  *)
(* X whose availability is not free has, when the run completes, a derived *)
(* block with uid prefix+X, the fixed opaque title and X's times; and a    *)
(* run that finds a derived block prefix+X while X is absent or free       *)
(* deletes that block.                                                     *)
C17_BlockFollowsAppointment ==
    (RunCompleted /\ BlockFlowEnabled /\ RunFailures = 0) =>
        /\ \A x \in BusyAppointments : DerivedBlock(x) \in icloud
        /\ \A e \in StaleBlocks :
              /\ ~HasResource(icloud, icloudCal2, e.uid)
              /\ \E c \in BlockCalls : c.op = "delete" /\ c.uid = e.uid /\ c.ok

BlockStepDone == pc \in {"forward", "sweep"} \/ RunCompleted

(* The block the flow finds for an appointment in the fetched events.      *)
BlockInSnapshot(x) ==
    iCloudByCalAndUid(altvinaBlocksOf(iCloudEvents), icloudCal2, BlockUid(x))

(* The creates and updates the flow issued for the block of x.             *)
BlockWritesFor(x) ==
    {c \in BlockCalls : c.uid = BlockUid(x) /\ c.op \in {"create", "update"}}

ExchangeIndex(id) == CHOOSE i \in DOMAIN ExchangeOrder : ExchangeOrder[i] = id

(* The step ended (listing or an earlier write threw) before it came to x. *)
AbortedBefore(x) ==
    \/ \E c \in BlockCalls : c.op = "list"
    \/ \E y \in BusyAppointments :
          /\ ExchangeIndex(y.id) < ExchangeIndex(x.id)
          /\ \E c \in BlockWritesFor(y) : ~c.ok

KillSwitchSet == isSyncPaused(env.SYNC_PAUSED)

NoNetworkCall == reads = {} /\ srcCalls = {} /\ mirrorCalls = {}

(* C19: with the kill switch set a run performs no read and no write on    *)
(* any calendar, does not validate the configuration (it succeeds whatever *)
(* the configuration is) and answers success with paused = true; the       *)
(* calendars are as they were when the run started.                        *)
C19_KillSwitch ==
    (KillSwitchSet /\ runNo > 0) =>
        /\ pc = "done"
        /\ result = [success |-> TRUE, status |-> 200, paused |-> TRUE]
        /\ NoNetworkCall
        /\ iCloudEvents = <<>> /\ existingEventsInWindow = <<>>
        /\ icloud = startIcloud /\ mirror = startMirror

C19_Witness ==
    /\ KillSwitchSet
    /\ env.SYNC_PAUSED # "true"
    /\ missing(env) # {}
    /\ runNo = MaxRuns
    /\ result.paused
    /\ icloud # {} /\ mirror # {}

(* A required value is missing, or a day count is not a number (parseInt   *)
(* gives NaN).                                                             *)
BadConfiguration ==
    \/ missing(env) # {}
    \/ isNaN(parseInt(env.SYNC_LOOKBACK_DAYS))
    \/ isNaN(parseInt(env.SYNC_LOOKAHEAD_DAYS))

(* C20: when a required configuration value is missing or a day count is   *)
(* not a number, a run (the kill switch not being set) ends with the       *)
(* failure result, and no network call - no read, no write, no             *)
(* authentication - has been made.                                         *)
C20_ConfigurationErrorBeforeNetwork ==
    (BadConfiguration /\ ~KillSwitchSet /\ runNo > 0) =>
        /\ pc = "done"
        /\ result = [success |-> FALSE, status |-> 500, paused |-> FALSE]
        /\ NoNetworkCall
        /\ icloud = startIcloud /\ mirror = startMirror

C20_Witness ==
    /\ ~KillSwitchSet
    /\ env.SYNC_PAUSED # ""
    /\ missing(env) = {}
    /\ isNaN(parseInt(env.SYNC_LOOKAHEAD_DAYS))
    /\ runNo = MaxRuns
    /\ ~result.success
    /\ NoNetworkCall

(***************************************************************************)
(* Run-level and per-item failures (C21, C22).                             *)
(***************************************************************************)
(* The last of the reads of steps 1-5 the run attempted ("" for none).     *)
LastRead ==
    IF reads \cap Range(ReadOrder) = {} THEN ""
    ELSE ReadOrder[CHOOSE i \in DOMAIN ReadOrder :
                      /\ ReadOrder[i] \in reads
                      /\ \A j \in DOMAIN ReadOrder : ReadOrder[j] \in reads => j <= i]

(* One of the reads of steps 1-5 failed: the reads broke off before the    *)
(* second discovery, or the run ended in failure before forward sync.      *)
FatalFailure ==
    /\ runNo > 0 /\ pc # "idle"
    /\ reads # {}
    /\ \/ "discover" \notin reads
       \/ pc = "done" /\ ~result.success /\ "forward" \notin reads

(* Authentication is the first request of the CalDAV discovery (Basic      *)
(* auth) and the Graph token request.                                      *)
AuthenticationFailed == FatalFailure /\ LastRead \in {"caldav", "token", "discover"}

MirrorCalendarNotLocated == FatalFailure /\ LastRead = "calendar"

SourceCalendarNotLocated ==
    /\ runNo > 0 /\ pc # "idle"
    /\ handlerEntry(env) = "sync"
    /\ ~env.cal1Url \/ ~env.cal2Url

AbortedWithoutWrite ==
    /\ pc = "done"
    /\ result = [success |-> FALSE, status |-> 500, paused |-> FALSE]
    /\ srcCalls = {} /\ mirrorCalls = {}
    /\ icloud = startIcloud /\ mirror = startMirror

(* C21 as stated: when authentication to either remote system fails or a   *)
(* required calendar - a source calendar or the mirror calendar - cannot   *)
(* be located, the run aborts at once with the failure result and issues   *)
(* no create, update or delete on any calendar.                            *)
C21_AbortOnAnyMissingCalendar ==
    (AuthenticationFailed \/ MirrorCalendarNotLocated \/ SourceCalendarNotLocated)
        => AbortedWithoutWrite

(* C21, amended: when authentication to either remote system fails, the    *)
(* mirror calendar cannot be located or another read of steps 1-5 fails,   *)
(* the run aborts at once with the failure result (success = false, status *)
(* 500) and has issued no create, update or delete on any calendar.        *)
C21_FatalBeforeAnyWrite == FatalFailure => AbortedWithoutWrite

C21_Witness ==
    /\ MirrorCalendarNotLocated
    /\ runNo = 2
    /\ prev.result.success
    /\ prev.srcCalls # {} /\ prev.mirrorCalls # {}
    /\ AbortedWithoutWrite

(* Whether write-back has a source write to make for a mirror event.       *)
WbNeedsWrite(m) ==
    LET meta == metaOf(m)
        calName == calendarOfTag(meta.syncSource)
        found == iCloudByCalAndUid(iCloudEvents, calName, meta.uid)
    IN  IF meta.syncSource = "" THEN env.cal2Url
        ELSE IF meta.syncSource = "CAL3" THEN FALSE
        ELSE IF found # <<>> /\ found[1].eventUrl # <<>>
             THEN Differs(m)
             ELSE calUrlOf(env, calName) /\ ~IsDerivedUid(meta.uid)

FailedDeletes == {c \in srcCalls : c.flow = "delete" /\ ~c.ok}

(* Every mirror event with a write to make was come to: it was written or  *)
(* its failure was recorded (errors also holds the failed deletions).      *)
WriteBackItemsProcessed ==
    outlookToIcloud.created + outlookToIcloud.updated
        + (outlookToIcloud.errors - Cardinality(FailedDeletes))
        = Cardinality({m \in Range(existingEventsInWindow) : WbNeedsWrite(m)})

DeletionItemsProcessed ==
    \A i \in DOMAIN iCloudEvents :
        deleteCandidate(iCloudEvents[i], existingEventsInWindow) =>
            \E c \in srcCalls :
                /\ c.flow = "delete"
                /\ c.cal = iCloudEvents[i].calendarName
                /\ c.uid = iCloudEvents[i].uid

BlockItemsProcessed ==
    (BlockFlowEnabled /\ ~\E c \in BlockCalls : c.op = "list") =>
        /\ \A x \in BusyAppointments :
              LET b == BlockInSnapshot(x)
              IN  (b = <<>> \/ ~sameBlock(b[1], x)) => BlockWritesFor(x) # {}
        /\ \A e \in Range(altvinaBlocksOf(iCloudEvents)) :
              slice(e.uid, Len(ALTVINA_BLOCK_UID_PREFIX)) \notin {x.id : x \in BusyAppointments}
                  => \E c \in BlockCalls : c.op = "delete" /\ c.uid = e.uid

(* Every source event not counted by forward sync is one whose call failed.*)
ForwardItemsProcessed ==
    Len(iCloudEventsForOutlook(iCloudEvents))
        - (syncResult.created + syncResult.updated + syncResult.skipped) <= RunFailures

SweepItemsProcessed ==
    \A i \in DOMAIN orphanedEvents :
        \E c \in mirrorCalls : c.flow = "sweep" /\ c.id = orphanedEvents[i].id

(* The run got past the reads of steps 1-5 and of forward sync.            *)
ReadsSucceeded ==
    /\ runNo > 0 /\ pc = "done"
    /\ handlerEntry(env) = "sync"
    /\ ~FatalFailure
    /\ ~("forward" \in reads /\ ~result.success)

(* C22: in every sub-flow - forward sync, write-back, source deletion,     *)
(* derived busy blocks, orphan sweep - the failure of one item's remote    *)
(* create, update or delete does not stop the iteration: every other item  *)
(* of the sub-flow and every later sub-flow is still processed, and the    *)
(* run returns success = true.                                             *)
C22_ItemFailureDoesNotStopIteration ==
    ReadsSucceeded =>
        /\ result.success
        /\ WriteBackItemsProcessed
        /\ DeletionItemsProcessed
        /\ BlockItemsProcessed
        /\ ForwardItemsProcessed
        /\ SweepItemsProcessed

(***************************************************************************)
(* Overlapping invocations (C23).                                          *)
(***************************************************************************)
(* The running invocation read the calendars before the previous one       *)
(* wrote; startIcloud and startMirror are what the previous one produced.  *)
Overlapped == prev.overlapping

MirrorEventsFor(mir, meta) == {m \in mir : metaOf(m) = meta}

SourceEventsOn(ic, cal) == {e \in ic : e.cal = cal}

(* C23: when two invocations overlap so that both read the calendars       *)
(* before either writes, and no call fails, the final state holds no more  *)
(* mirror events per (tag, uid) and no more source events than the first   *)
(* invocation alone produced: every create is idempotent by uid and        *)
(* metadata.                                                               *)
C23_OverlapAddsNothing ==
    (RunCompleted /\ Overlapped /\ failures = 0) =>
        /\ \A m \in mirror :
              metaOf(m) # NoMeta =>
                  Cardinality(MirrorEventsFor(mirror, metaOf(m)))
                      <= Cardinality(MirrorEventsFor(startMirror, metaOf(m)))
        /\ \A cal \in Calendars :
              Cardinality(SourceEventsOn(icloud, cal))
                  <= Cardinality(SourceEventsOn(startIcloud, cal))

(***************************************************************************)
(* Forward sync batch and orphan sweep (C24, C25).                         *)
(***************************************************************************)
ForwardBatch == iCloudEventsForOutlook(iCloudEvents)

BatchKeys == {<<syncSourceOf(ev.calendarName), ev.uid>> : ev \in Range(ForwardBatch)}

BatchUids == {ev.uid : ev \in Range(ForwardBatch)}

ForwardDone ==
    /\ pc = "sweep"
    /\ \A c \in ForwardCalls(mirrorCalls) : c.ok

(* C24: of the events of the forward sync batch that share uid and tag     *)
(* only the first is processed (one create or update for the (tag, uid)),  *)
(* each later one is skipped and counted in skipped; two events with the   *)
(* same uid under different tags are both processed.                       *)
C24_DuplicatesPerTagAndUid ==
    ForwardDone =>
        /\ syncResult.created + syncResult.updated = Cardinality(BatchKeys)
        /\ syncResult.skipped = Len(ForwardBatch) - Cardinality(BatchKeys)

SweepCallsFor(id) == {c \in mirrorCalls : c.flow = "sweep" /\ c.id = id}

(* Neither a uid fetched for the tag nor a uid restored for it: the sweep  *)
(* is suppressed for the tag.                                              *)
EmptySetGuard(tag) == KnownUids(tag) = {} /\ RestoredUids(tag) = {}

(* C25: where the empty-set guard does not apply, the sweep issues the     *)
(* delete of a listed mirror event with valid metadata (tag, uid) if and   *)
(* only if the event was not created in this run and uid is neither known  *)
(* nor restored for its tag, and a delete that succeeds removes the event; *)
(* a mirror event forward sync created in this run is not deleted by the   *)
(* sweep of the same run.                                                  *)
C25_SweepDeletesExactlyOrphans ==
    RunCompleted =>
        /\ \A m \in Range(existingEventsInWindow) :
              (metaOf(m) # NoMeta /\ ~EmptySetGuard(metaOf(m).syncSource)) =>
                  /\ SweepCallsFor(m.id) # {}
                        <=> /\ m.id \notin syncResult.createdEventIds
                            /\ metaOf(m).uid \notin KnownUids(metaOf(m).syncSource)
                            /\ metaOf(m).uid \notin RestoredUids(metaOf(m).syncSource)
                  /\ m.id \in SweptIds => ~HasEvent(mirror, m.id)
        /\ \A id \in syncResult.createdEventIds :
              SweepCallsFor(id) = {} /\ HasEvent(mirror, id)

C25_Witness ==
    /\ RunCompleted
    /\ \E m \in Range(existingEventsInWindow) :
          /\ KnownUids(metaOf(m).syncSource) # {}
          /\ m.id \in SweptIds
          /\ ~HasEvent(mirror, m.id)
    /\ \E id \in syncResult.createdEventIds : HasEvent(mirror, id)

(***************************************************************************)
(* Unclaimed mirror events, the sync window, the codec (C26 - C28).        *)
(***************************************************************************)
(* The listed mirror events whose body is absent or holds no marker that   *)
(* parses.                                                                 *)
Unclaimed == {m \in Range(existingEventsInWindow) : metaOf(m) = NoMeta}

(* C26: a mirror event whose body is absent or holds no parseable marker   *)
(* is treated as unclaimed: write-back takes it for a hand-made event, the *)
(* orphan sweep does not delete it, the run does not fail because of it    *)
(* and records no error other than for a remote call that failed.          *)
C26_UnclaimedIsLeftAlone ==
    /\ RunCompleted =>
          \A m \in Unclaimed :
              /\ SweepCallsFor(m.id) = {}
              /\ HasEvent(mirror, m.id)
              /\ env.cal2Url => WritebackCreates # {}
    /\ outlookToIcloud.errors > 0 =>
          \/ \E c \in srcCalls : ~c.ok
          \/ \E c \in mirrorCalls : c.flow = "writeback" /\ ~c.ok
    /\ (ReadsSucceeded /\ Unclaimed # {}) => result.success

C26_Witness ==
    /\ RunCompleted
    /\ KnownUids("CAL2") # {}
    /\ outlookToIcloud.errors = 0
    /\ \E m \in Unclaimed :
          /\ m.body # <<>>
          /\ startsWith(m.body[Len(m.body)], MarkerToken)
          /\ HasEvent(mirror, m.id)
          /\ WritebackCreates # {}

(* An event that lies entirely outside the window of the run.              *)
LiesOutside(ev) == ev.end <= window.start \/ ev.start >= window.end

NoDelimiter(s) == indexOf(s, MarkerDelimiter, 1) = 0

BlocksAtStart == {e \in startIcloud : e.cal = icloudCal2 /\ IsDerivedUid(e.uid)}

(* C30: in a run with the busy-block flow not enabled, no create, update   *)
(* or delete of a derived block is issued, the derived-block counts are    *)
(* zero, and every derived block that was on the second calendar is left   *)
(* as it was by every sub-flow.                                            *)
C30_DisabledFlowLeavesBlocks ==
    (runNo > 0 /\ pc # "idle" /\ ~BlockFlowEnabled) =>
        /\ BlockCalls = {}
        /\ exchangeToIcloud = ZeroExchangeToIcloud
        /\ \A c \in srcCalls : ~IsDerivedUid(c.uid)
        /\ \A e \in BlocksAtStart : e \in icloud

(***************************************************************************)
(* Edits of one side between two runs (C31, C32).                          *)
(***************************************************************************)
AfterEdit(side) == RunCompleted /\ RunFailures = 0 /\ prev.edited.side = side

(* The edited pair as the run found it.                                    *)
EditedSource ==
    CHOOSE e \in startIcloud : e.cal = prev.edited.cal /\ e.uid = prev.edited.uid

EditedMirror == CHOOSE m \in startMirror : m.id = prev.edited.id

(* C31: when between two runs only a source event changed and its tagged   *)
(* mirror event was not touched, the run leaves the source event with its  *)
(* new values, issues no update to the source event, and the mirror event  *)
(* holds the new values after the run.                                     *)
C31_SourceEditReachesMirrorOnly ==
    AfterEdit("source") =>
        /\ EditedSource \in icloud
        /\ ~\E c \in srcCalls :
               /\ c.op = "update"
               /\ c.cal = EditedSource.cal /\ c.uid = EditedSource.uid
        /\ \A m \in mirror :
               m.id = EditedMirror.id =>
                   /\ m.subject = EditedSource.title
                   /\ m.start = EditedSource.start /\ m.end = EditedSource.end

(* C32: when between two runs only a tagged mirror event was edited and    *)
(* its source event was not touched, after the run the source event holds  *)
(* the edited values and the mirror event still holds them.                *)
C32_MirrorEditReachesSourceAndStays ==
    AfterEdit("mirror") =>
        /\ \A e \in icloud :
               (e.cal = prev.edited.cal /\ e.uid = prev.edited.uid) =>
                   /\ e.title = EditedMirror.subject
                   /\ e.start = EditedMirror.start /\ e.end = EditedMirror.end
        /\ \A m \in mirror :
               m.id = EditedMirror.id =>
                   /\ m.subject = EditedMirror.subject
                   /\ m.start = EditedMirror.start /\ m.end = EditedMirror.end


(***************************************************************************)
(* Convergence of repeated runs (C33).                                     *)
(***************************************************************************)
(* A run that has returned issued no create, update or delete.             *)
Settled == pc = "done" => (srcCalls = {} /\ mirrorCalls = {})

(* Runs keep being started and keep returning: the sequence of complete    *)
(* runs does not end.                                                      *)
RunsKeepCompleting == ([]<>(pc = "writeback")) /\ ([]<>(pc = "done"))

(* C33: with no external edit and no remote failure, a sequence of         *)
(* complete, non-overlapping runs eventually reaches a run that issues no  *)
(* create, update or delete on any calendar, and every run after it also   *)
(* issues none.  (Behaviours that run into the bound on mirror ids or on   *)
(* fresh uids are not judged.)                                             *)
C33_RunsEventuallySettle == RunsKeepCompleting => ((<>[]Settled) \/ <>AtBound)

(***************************************************************************)
(* The tag step of write-back (C34).                                       *)
(***************************************************************************)
(* The human-created mirror events the write-back loop has just tagged.    *)
TaggedNow ==
    {m \in startMirror :
        /\ metaOf(m).syncSource = ""
        /\ \E c \in mirrorCalls :
              c.flow = "writeback" /\ c.op = "update" /\ c.id = m.id /\ c.ok}

(* C34: the tag step changes only the metadata of the human-created        *)
(* mirror event: its title, start, end and availability are the same       *)
(* after tagging as before, whatever the availability was.                 *)
C34_TagKeepsEvent ==
    pc = "delete" =>
        \A m \in TaggedNow :
            \E t \in mirror :
                /\ t.id = m.id
                /\ metaOf(t).syncSource = "CAL2"
                /\ t.subject = m.subject /\ t.start = m.start /\ t.end = m.end
                /\ t.showAs = m.showAs


(***************************************************************************)
(* Events read only from the public read-only source (C35).                *)
(***************************************************************************)
(* The uids the run read from the public calendar and from no CalDAV       *)
(* calendar: their snapshot entry carries no write-back handle.            *)
PublicOnlyUids ==
    {ev.uid : ev \in {x \in Range(iCloudEvents) : x.eventUrl = <<>>}}

(* C35: an event read only from the public read-only source causes no      *)
(* create, update or delete on a writable source calendar, in the run that *)
(* reads it, also when that run finds its mirror event.                    *)
C35_PublicEventCausesNoSourceWrite ==
    (runNo > 0 /\ pc # "idle") =>
        \A c \in srcCalls : c.uid \notin PublicOnlyUids


(***************************************************************************)
(* The derived-block namespace (C36).                                      *)
(***************************************************************************)
(* The mirror events Forward Sync created or updated in this run.          *)
ForwardWritten ==
    {m \in mirror : \E c \in mirrorCalls : c.flow = "forward" /\ c.ok /\ c.id = m.id}

(* Forward Sync writes no mirror event for a derived uid.                  *)
ForwardSkipsDerived ==
    pc \in {"sweep", "done"} =>
        \A m \in ForwardWritten : ~IsDerivedUid(metaOf(m).uid)

(* The source deletion of write-back deletes no derived block.             *)
DeletionSkipsDerived ==
    \A c \in srcCalls : c.flow = "delete" => ~IsDerivedUid(c.uid)

(* C36: events in the derived-block namespace are touched only by the      *)
(* Derived-Busy-Block flow: Forward Sync creates or updates no mirror      *)
(* event for a derived uid, the source deletion deletes no derived block,  *)
(* and no other flow writes to a derived uid, whatever the mirror holds.   *)
C36_DerivedNamespaceOnlyByBlockFlow ==
    /\ ForwardSkipsDerived
    /\ DeletionSkipsDerived
    /\ \A c \in srcCalls : IsDerivedUid(c.uid) => c.flow = "blocks"


(***************************************************************************)
(* One derived block per appointment (C37).                                *)
(***************************************************************************)
DerivedBlocksOn(ic) == {e \in ic : e.cal = icloudCal2 /\ IsDerivedUid(e.uid)}

(* The step issues a create of the block flow for this uid.                *)
BlockCreateIssued(uid) ==
    \E c \in srcCalls' \ srcCalls :
        c.flow = "blocks" /\ c.op = "create" /\ c.uid = uid

(* C37: after any number of runs, sequential or overlapping, the target    *)
(* source calendar holds at most one derived block per secondary-source    *)
(* event id, and a create for a deterministic uid that already exists      *)
(* leaves the existing block as it was.                                    *)
C37_OneBlockPerAppointment ==
    /\ [](\A e1, e2 \in DerivedBlocksOn(icloud) : e1.uid = e2.uid => e1 = e2)
    /\ [][\A e \in DerivedBlocksOn(icloud) :
             BlockCreateIssued(e.uid) => e \in icloud']_vars

(* A create of the block flow met a block that was already there (the run  *)
(* had not seen it), sequentially or in an overlapping invocation.         *)
C37_Witness ==
    /\ pc = "forward"
    /\ \E c \in srcCalls :
          /\ c.flow = "blocks" /\ c.op = "create" /\ ~c.ok
          /\ \E e \in DerivedBlocksOn(startIcloud) : e.uid = c.uid /\ e \in icloud


(***************************************************************************)
(* A failure inside the busy-block flow (C38).                             *)
(***************************************************************************)
(* The flow was left by a throw: the lookup or listing of the secondary    *)
(* calendar failed, or a block write failed.                               *)
BlockFlowFailed == \E c \in srcCalls : c.flow = "blocks" /\ ~c.ok

(* syncEvents itself threw (its own listing of the mirror failed).         *)
ForwardThrew == pc = "done" /\ ~result.success /\ "forward" \in reads

(* C38: a failure inside the Derived-Busy-Block flow does not fail the     *)
(* run: Forward Sync and the Orphan Sweep still execute afterwards and the *)
(* run returns success = true (unless Forward Sync itself throws).         *)
C38_BlockFailureDoesNotFailRun ==
    (runNo > 0 /\ pc \in {"forward", "sweep", "done"} /\ BlockFlowFailed) =>
        /\ pc \in {"sweep", "done"} => "forward" \in reads
        /\ (pc = "done" /\ ~ForwardThrew) =>
              /\ result = [success |-> TRUE, status |-> 200, paused |-> FALSE]
              /\ \A o \in Range(orphanedEvents) : \E c \in mirrorCalls :
                     c.flow = "sweep" /\ c.id = o.id

(* A run that returned after its busy-block flow had failed, with a mirror *)
(* event written by Forward Sync and an orphan swept.                      *)
C38_Witness ==
    /\ pc = "done" /\ BlockFlowFailed /\ result.success
    /\ \E c \in mirrorCalls : c.flow = "forward" /\ c.ok
    /\ \E c \in mirrorCalls : c.flow = "sweep" /\ c.ok


(***************************************************************************)
(* The default writable source calendar is not resolved (C39).             *)
(***************************************************************************)
(* The listed mirror events that carry no metadata.                        *)
HumanCreated == Untagged(Range(existingEventsInWindow))

(* C39: when the default writable source calendar cannot be resolved,      *)
(* every mirror event without metadata is counted as a candidate and as    *)
(* skipped-no-target, no source event is created for it and no mirror      *)
(* event is tagged: candidates = skippedNoTarget, and the created count    *)
(* holds nothing for human-created events (only restores).                 *)
C39_NoTargetSkipsHumanCreated ==
    (runNo > 0 /\ pc \in {"delete", "blocks", "forward", "sweep"} /\ ~env.cal2Url) =>
        /\ outlookToIcloud.candidates = Cardinality(HumanCreated)
        /\ outlookToIcloud.skippedNoCal2Url = outlookToIcloud.candidates
        /\ WritebackCreates = {}
        /\ \A c \in mirrorCalls : c.flow # "writeback"
        /\ \A m \in HumanCreated : m \in mirror \/ pc = "sweep"
        /\ outlookToIcloud.created =
               Cardinality({c \in srcCalls : c.flow = "writeback" /\ c.op = "restore" /\ c.ok})

(* Two human-created mirror events were passed over by write-back.         *)
C39_Witness ==
    /\ pc = "delete" /\ ~env.cal2Url
    /\ Cardinality(HumanCreated) = 2
    /\ outlookToIcloud.skippedNoCal2Url = 2


(***************************************************************************)
(* Normalized instants (C40).                                              *)
(***************************************************************************)
OnMidnight(date) == date % HoursPerDay = 0

(* C40: every NormalizedEvent produced from a source calendar has          *)
(* start <= end, and every all-day event has start and end on midnight     *)
(* boundaries of UTC with end strictly after start.                        *)
C40_NormalizedInstantsOrdered ==
    \A i \in DOMAIN iCloudEvents :
        LET n == iCloudEvents[i]
        IN  /\ n.start <= n.end
            /\ n.isAllDay => (OnMidnight(n.start) /\ OnMidnight(n.end) /\ n.start < n.end)


=============================================================================
